---- MODULE Spec2Model ----
(***************************************************************************)
(* Dual camera capture: the camera provider (role assignment, stream       *)
(* lifecycle), the capture-mode state machine (live / sequential) and the  *)
(* capture animation, as one event-loop state machine.                     *)
(*                                                                         *)
(* Every async function is a task with a continuation label (pc) and the   *)
(* thing it is suspended on (wait): "queue" is a continuation sitting in   *)
(* the microtask queue `ready` (FIFO), everything else is an external      *)
(* event (hardware, frame, transition, child task).  External events and   *)
(* user events are macrotasks: they run only when `ready` is empty.        *)
(***************************************************************************)
EXTENDS Integers, Sequences, FiniteSets, TLC

\* bounds of the model
MaxTasks == 2

Cams == {1, 2}
Facings == {"environment", "user", "none"}
NoStream == <<0, 0>>
\* an OffscreenCanvas: whether there is one and whether an overlay was drawn into it
NoImg == [ok |-> FALSE, hasOv |-> FALSE]
\* el.style.left / el.style.top set to ""
NoPos == <<>>
Idle == [kind |-> "none", flow |-> "", pc |-> "", wait |-> "", cam |-> 0, res |-> NoStream,
         m |-> 0, o |-> 0, img |-> NoImg, step |-> 0, shown |-> 0]

VARIABLES
    isIOS,            \* cameraSignals.isIOS (detectIOS())
    hasVT,            \* document.startViewTransition is available
    hidden,           \* document.hidden
    cameraInitState,  \* "pending" | "ready" | "error"
    ncams,            \* cameras.length returned by getCameras (-1 before it returns)
    facing,           \* Camera.facingMode of camera object 1, 2
    stream,           \* Camera.#stream of camera object 1, 2
    mainCamera,       \* cameraSignals.mainCamera (0 = null)
    overlayCamera,    \* cameraSignals.overlayCamera (0 = null)
    mainSrc,          \* mainVideoRef.current.srcObject
    overlaySrc,       \* overlayVideoRef.current.srcObject
    mainFlip,         \* mainEl has class front-camera
    overlayFlip,      \* overlayEl has class front-camera
    videosPaused,     \* the video elements are paused
    currentMode,      \* "live" | "sequential"
    sequentialStep,   \* 0 | 1 | 2
    capturedOverlay,  \* cameraSignals.capturedOverlay (NoImg = null)
    captureDialogOpen,
    capturedImage,
    stagingActive,    \* captureAnimatedCanvas has class active
    stagingTag,       \* captureAnimatedCanvas.style.viewTransitionName
    captureError,     \* why the promise of CaptureButton.handleClick was last rejected
                      \* ("" = never): nobody handles that rejection
    tasks,            \* the pending async function activations
    ready,            \* the microtask queue
    isDragging,       \* useOverlayPosition: isDraggingRef.current
    hasMoved,         \* hasMovedRef.current
    dragStart,        \* <<dragStartXRef.current, dragStartYRef.current>>
    elementStart,     \* <<elementStartXRef.current, elementStartYRef.current>>
    elStyle,          \* <<el.style.left, el.style.top>> in px (NoPos = cleared)
    elCorner,         \* the overlay-corner-* class of the element ("none" = removed)
    elDragging,       \* the element has class overlay-dragging
    overlayCorner,    \* cameraSignals.overlayCorner
    snapTimers,       \* pending setTimeout callbacks of handlePointerUp (their newCorner)
    taps,             \* number of calls of options.onTap
    farthest,         \* largest squared distance a pointermove of this gesture measured
    cancelledFrom,    \* "" or where handlePointerCancel ended the last gesture:
                      \* "PotentialDrag" (hasMoved was false) or "Dragging"
    statusText,       \* showStatus.ts: status.textContent
    statusShown,      \* the status element has class show
    hideTimeout,      \* showStatus.ts: hideTimeout is not null
    hideTimers,       \* number of pending setTimeout callbacks of showStatus
    camStream,        \* Camera.#stream of the Camera object of SpecCamera (0: null)
    camDeviceId,      \* its deviceId
    camFacingMode,    \* its facingMode
    liveStreams,      \* the MediaStreams of that device whose tracks are live
    nextHandle,       \* the MediaStream the next resolving getUserMedia creates
    pendingCalls,     \* getStream() calls awaiting getUserMedia, made since the last stop()
    stalePending,     \* getStream() calls awaiting getUserMedia, made before the last stop()
    returned,         \* the handles getStream() calls made since the last stop() returned
    camOp,            \* the Camera method that ran last
    enumPc,           \* getCameras: the await it is suspended on, or "done" / "thrown"
    world,            \* the video input devices of the machine getCameras runs on
    cameras,          \* getCameras: cameras (deviceId, facingMode, whether #stream is set)
    openStreams,      \* number of MediaStreams getCameras obtained whose tracks are live
    allDevices,       \* getCameras: allDevices (their deviceIds)
    usedDeviceIds,    \* getCameras: usedDeviceIds
    deviceIdx,        \* position of the for-of loop in allDevices
    succeeded,        \* deviceIds in the order their acquisition succeeded
    currentFitMode,   \* canvas.ts: currentFitMode
    canvasCall        \* the last call of a canvas.ts function: its arguments and numbers

envVars == <<isIOS, hasVT, hidden>>
camVars == <<ncams, facing, stream, mainCamera, overlayCamera>>
elVars == <<mainSrc, overlaySrc, mainFlip, overlayFlip>>
modeVars == <<currentMode, sequentialStep, capturedOverlay>>
dialogVars == <<captureDialogOpen, capturedImage>>
stageVars == <<stagingActive, stagingTag>>
dragVars == <<isDragging, hasMoved, dragStart, elementStart, elStyle, elCorner, elDragging,
              overlayCorner, snapTimers, taps, farthest, cancelledFrom>>
statusVars == <<statusText, statusShown, hideTimeout, hideTimers>>
cameraVars == <<camStream, camDeviceId, camFacingMode, liveStreams, nextHandle, pendingCalls,
                stalePending, returned, camOp>>
\* the variables of the units that have a specification of their own
enumVars == <<enumPc, world, cameras, openStreams, allDevices, usedDeviceIds, deviceIdx,
              succeeded>>
canvasVars == <<currentFitMode, canvasCall>>
unitVars == <<cameraVars, enumVars, canvasVars>>
vars == <<isIOS, hasVT, hidden, cameraInitState, ncams, facing, stream, mainCamera,
          overlayCamera, mainSrc, overlaySrc, mainFlip, overlayFlip, videosPaused,
          currentMode, sequentialStep, capturedOverlay, captureDialogOpen, capturedImage,
          stagingActive, stagingTag, captureError, tasks, ready, isDragging, hasMoved, dragStart,
          elementStart, elStyle, elCorner, elDragging, overlayCorner, snapTimers, taps,
          farthest, cancelledFrom, statusText, statusShown, hideTimeout, hideTimers, camStream, camDeviceId,
          camFacingMode, liveStreams, nextHandle, pendingCalls, stalePending, returned, camOp,
          enumPc, world, cameras, openStreams, allDevices, usedDeviceIds, deviceIdx, succeeded,
          currentFitMode, canvasCall>>

----------------------------------------------------------------------------
\* Camera (getCameras.ts)

\* Camera.shouldFlip
shouldFlip(c) == c # 0 /\ facing[c] = "user"

\* A MediaStream is named by its camera and by whether it is the stream the
\* Camera object holds now (Current) or one it held or was handed before (Stale):
\* a reference goes stale when the Camera stops or replaces its #stream.
Current(c) == <<c, 1>>
Stale(c) == <<c, 2>>
Retire(h, S) == IF h[1] \in S /\ h = Current(h[1]) THEN Stale(h[1]) ELSE h
RetireTasks(ts, S) == [t \in 1..MaxTasks |-> [ts[t] EXCEPT !.res = Retire(@, S)]]

\* Camera.stop(): the tracks of #stream are stopped and #stream is cleared
StopStream(str, c) == IF c = 0 THEN str ELSE [str EXCEPT ![c] = NoStream]

\* Camera.getStream() called by task record rec, which continues at pc next:
\* a cached #stream resolves at once, otherwise getUserMedia is requested
GetStreamCall(rec, str, c, next) ==
    IF str[c] # NoStream
    THEN [rec EXCEPT !.pc = next, !.wait = "queue", !.cam = 0, !.res = str[c]]
    ELSE [rec EXCEPT !.pc = next, !.wait = "hw", !.cam = c, !.res = NoStream]

\* the Camera object holds a live stream
HoldsLive(c) == stream[c] # NoStream

----------------------------------------------------------------------------
\* task pool and microtask queue

FreeSlots == {t \in 1..MaxTasks : tasks[t].kind = "none"}
Slot1 == CHOOSE t \in FreeSlots : \A u \in FreeSlots : t <= u
Slot2 == CHOOSE t \in FreeSlots \ {Slot1} : \A u \in FreeSlots \ {Slot1} : t <= u
Macrotask == ready = <<>>
Running(t) == ready # <<>> /\ Head(ready) = t
Enq(q, t, rec) == IF rec.wait = "queue" THEN Append(q, t) ELSE q

\* an overlay capture that has not reached its flip callback yet will need a
\* slot for the swapCameras() call of that callback
Reserved == Cardinality({t \in 1..MaxTasks : tasks[t].flow = "overlay"
                                              /\ tasks[t].wait \in {"frame", "flip"}})
Avail == Cardinality(FreeSlots) - Reserved

\* an async function returns, or throws with nobody catching
Finish(ts, t) == [ts EXCEPT ![t] = Idle]

----------------------------------------------------------------------------
Init ==
    /\ isIOS \in BOOLEAN
    /\ hasVT \in BOOLEAN
    /\ hidden = FALSE
    /\ cameraInitState = "pending"
    /\ ncams = -1
    /\ facing = [c \in Cams |-> "none"]
    /\ stream = [c \in Cams |-> NoStream]
    /\ mainCamera = 0
    /\ overlayCamera = 0
    /\ mainSrc = NoStream
    /\ overlaySrc = NoStream
    /\ mainFlip = FALSE
    /\ overlayFlip = FALSE
    /\ videosPaused = FALSE
    /\ currentMode = "live"
    /\ sequentialStep = 0
    /\ capturedOverlay = NoImg
    /\ captureDialogOpen = FALSE
    /\ capturedImage = NoImg
    /\ stagingActive = FALSE
    /\ stagingTag = ""
    /\ captureError = ""
    /\ tasks = [t \in 1..MaxTasks |->
                  IF t = 1 THEN [Idle EXCEPT !.kind = "init", !.pc = "i_cams", !.wait = "enum"]
                  ELSE Idle]
    /\ ready = <<>>
    /\ isDragging = FALSE
    /\ hasMoved = FALSE
    /\ dragStart = <<0, 0>>
    /\ elementStart = <<0, 0>>
    /\ elStyle = NoPos
    /\ elCorner = "top-left"
    /\ elDragging = FALSE
    /\ overlayCorner = "top-left"
    /\ snapTimers = <<>>
    /\ taps = 0
    /\ farthest = 0
    /\ cancelledFrom = ""
    \* initCameras has called showStatus("Initializing cameras...", 2000)
    /\ statusText = "Initializing cameras..."
    /\ statusShown = TRUE
    /\ hideTimeout = TRUE
    /\ hideTimers = 1
    \* the Camera object of SpecCamera is not constructed yet
    /\ camStream = 0
    /\ camDeviceId = ""
    /\ camFacingMode = "none"
    /\ liveStreams = {}
    /\ nextHandle = 1
    /\ pendingCalls = 0
    /\ stalePending = 0
    /\ returned = {}
    /\ camOp = "none"
    \* getCameras of SpecEnum is not called yet
    /\ enumPc = "idle"
    /\ world = {}
    /\ cameras = <<>>
    /\ openStreams = 0
    /\ allDevices = <<>>
    /\ usedDeviceIds = {}
    /\ deviceIdx = 0
    /\ succeeded = <<>>
    /\ currentFitMode = "cover"
    /\ canvasCall = [fn |-> "none"]

----------------------------------------------------------------------------
\* CameraProvider: initCameras

\* what getCameras can return: at most two Camera objects, each with the
\* facing mode it was asked for by (undefined for the deviceId fallback)
CameraLists == {<<>>, <<"user">>, <<"environment">>, <<"environment", "user">>}

\* initCameras forces sequential mode: if (ios && cameras.length > 1)
ForceSequential_AnyDual == ncams > 1
ForceSequential == isIOS /\ ncams > 1

\* the tail of initCameras: updateOrientation(), the forced mode, "ready"
InitFinalize(t) ==
    /\ mainFlip' = shouldFlip(mainCamera)
    /\ overlayFlip' = shouldFlip(overlayCamera)
    /\ IF ForceSequential
       THEN currentMode' = "sequential" /\ sequentialStep' = 1
       ELSE UNCHANGED <<currentMode, sequentialStep>>
    /\ cameraInitState' = "ready"
    /\ tasks' = Finish(tasks, t)
    /\ ready' = Tail(ready)

\* getCameras(ios) resolves; initCameras runs up to its first getStream()
InitGotCameras(t, list) ==
    /\ Macrotask
    /\ tasks[t].kind = "init" /\ tasks[t].wait = "enum"
    /\ ncams' = Len(list)
    /\ IF Len(list) = 0
       THEN /\ cameraInitState' = "error"
            /\ tasks' = [tasks EXCEPT ![t] = Idle]
            /\ UNCHANGED <<facing, stream, mainCamera, overlayCamera, ready>>
       ELSE LET str == [c \in Cams |-> IF c <= Len(list) /\ ~isIOS THEN Current(c) ELSE NoStream]
                rec == GetStreamCall(tasks[t], str, 1, "i_main")
            IN /\ facing' = [c \in Cams |-> IF c <= Len(list) THEN list[c] ELSE "none"]
               /\ stream' = str
               /\ mainCamera' = 1
               /\ overlayCamera' = IF Len(list) > 1 THEN 2 ELSE 0
               /\ tasks' = [tasks EXCEPT ![t] = rec]
               /\ ready' = Enq(ready, t, rec)
               /\ UNCHANGED cameraInitState
    /\ UNCHANGED <<envVars, elVars, videosPaused, modeVars, dialogVars, stageVars>>
    /\ UNCHANGED <<captureError, dragVars>>

\* mainEl.srcObject = (awaited stream); then the overlay stream or the tail
InitBindMain(t) ==
    /\ Running(t) /\ tasks[t].pc = "i_main"
    /\ mainSrc' = tasks[t].res
    /\ IF ncams > 1 /\ ~isIOS
       THEN LET rec == GetStreamCall(tasks[t], stream, 2, "i_overlay")
            IN /\ tasks' = [tasks EXCEPT ![t] = rec]
               /\ ready' = Enq(Tail(ready), t, rec)
               /\ UNCHANGED <<mainFlip, overlayFlip, currentMode, sequentialStep,
                              cameraInitState>>
       ELSE InitFinalize(t)
    /\ UNCHANGED <<envVars, camVars, overlaySrc, videosPaused, capturedOverlay,
                   dialogVars, stageVars>>
    /\ UNCHANGED <<captureError, dragVars>>

\* overlayEl.srcObject = (awaited stream); then the tail
InitBindOverlay(t) ==
    /\ Running(t) /\ tasks[t].pc = "i_overlay"
    /\ overlaySrc' = tasks[t].res
    /\ InitFinalize(t)
    /\ UNCHANGED <<envVars, camVars, mainSrc, videosPaused, capturedOverlay,
                   dialogVars, stageVars>>
    /\ UNCHANGED <<captureError, dragVars>>

----------------------------------------------------------------------------
\* getUserMedia settles (getStream's continuation: this.#stream = stream)

AcquireOk(t) ==
    /\ Macrotask
    /\ tasks[t].wait = "hw"
    /\ LET c == tasks[t].cam
       IN /\ stream' = [stream EXCEPT ![c] = Current(c)]
          /\ mainSrc' = Retire(mainSrc, {c})
          /\ overlaySrc' = Retire(overlaySrc, {c})
          /\ tasks' = [RetireTasks(tasks, {c}) EXCEPT ![t].wait = "queue", ![t].cam = 0,
                                                      ![t].res = Current(c)]
          /\ ready' = Append(ready, t)
    /\ UNCHANGED <<envVars, cameraInitState, ncams, facing, mainCamera, overlayCamera,
                   mainFlip, overlayFlip, videosPaused, modeVars, dialogVars, stageVars>>
    /\ UNCHANGED <<captureError, dragVars>>

\* getUserMedia rejects: the awaiting function throws.  handleVisibilityChange
\* catches the rejection of resumeAllStreams, nobody else catches.  The
\* swapCameras() of resetSequentialMode is awaited by captureMainPhoto, that by
\* capture(), that by handleClick: its rejection is the click handler's.
RejectsCapture(rec) == rec.kind = "swap" /\ rec.flow = "main"
AcquireFail(t) ==
    /\ Macrotask
    /\ tasks[t].wait = "hw"
    /\ tasks' = Finish(tasks, t)
    /\ captureError' = IF RejectsCapture(tasks[t]) THEN "swap" ELSE captureError
    /\ UNCHANGED <<envVars, cameraInitState, camVars, elVars, videosPaused, modeVars,
                   dialogVars, stageVars, ready>>
    /\ UNCHANGED dragVars

----------------------------------------------------------------------------
\* CameraProvider: swapCameras

\* swapCameras() up to its first await; flow names the caller: "click" (switch
\* button, tap on the overlay), "flip" (the callback of captureOverlayPhoto),
\* "main" (resetSequentialMode for captureMainPhoto)
SwapRoles_Overwrite == [main |-> overlayCamera, overlay |-> overlayCamera]
SwapRoles_NoExchange == [main |-> mainCamera, overlay |-> overlayCamera]
SwapRoles == [main |-> overlayCamera, overlay |-> mainCamera]
SwapStream == IF isIOS THEN StopStream(stream, mainCamera) ELSE stream
SwapStopped == IF isIOS THEN {mainCamera} ELSE {}
SwapTask(flow) ==
    GetStreamCall([Idle EXCEPT !.kind = "swap", !.flow = flow, !.m = mainCamera],
                  SwapStream, overlayCamera, "sw_main")

\* a swapCameras() call nobody awaits (switch button, tap on the overlay)
ClickSwap ==
    /\ Macrotask /\ ~hidden /\ ~captureDialogOpen
    /\ IF overlayCamera = 0
       THEN UNCHANGED <<camVars, mainSrc, overlaySrc, tasks, ready>>
       ELSE /\ Avail >= 1
            /\ mainCamera' = SwapRoles.main
            /\ overlayCamera' = SwapRoles.overlay
            /\ stream' = SwapStream
            /\ mainSrc' = Retire(mainSrc, SwapStopped)
            /\ overlaySrc' = Retire(overlaySrc, SwapStopped)
            /\ tasks' = [RetireTasks(tasks, SwapStopped) EXCEPT ![Slot1] = SwapTask("click")]
            /\ ready' = Enq(ready, Slot1, SwapTask("click"))
            /\ UNCHANGED <<ncams, facing>>
    /\ UNCHANGED <<envVars, cameraInitState, mainFlip, overlayFlip, videosPaused, modeVars,
                   dialogVars, stageVars>>
    /\ UNCHANGED <<captureError, dragVars>>

\* mainEl.srcObject = (awaited stream).  iOS: overlayEl.srcObject = null and
\* updateOrientation(); otherwise await main.getStream() for the overlay element
SwapBindMain(t) ==
    /\ Running(t) /\ tasks[t].pc = "sw_main"
    /\ mainSrc' = tasks[t].res
    /\ IF isIOS
       THEN /\ overlaySrc' = NoStream
            /\ mainFlip' = shouldFlip(mainCamera)
            /\ overlayFlip' = shouldFlip(overlayCamera)
            /\ tasks' = Finish(tasks, t)
            /\ ready' = Tail(ready)
       ELSE LET rec == GetStreamCall([tasks[t] EXCEPT !.m = 0], stream, tasks[t].m,
                                     "sw_overlay")
            IN /\ tasks' = [tasks EXCEPT ![t] = rec]
               /\ ready' = Enq(Tail(ready), t, rec)
               /\ UNCHANGED <<overlaySrc, mainFlip, overlayFlip>>
    /\ UNCHANGED <<envVars, cameraInitState, camVars, videosPaused, modeVars, dialogVars,
                   stageVars>>
    /\ UNCHANGED <<captureError, dragVars>>

\* overlayEl.srcObject = (awaited stream); updateOrientation()
SwapBindOverlay(t) ==
    /\ Running(t) /\ tasks[t].pc = "sw_overlay"
    /\ overlaySrc' = tasks[t].res
    /\ mainFlip' = shouldFlip(mainCamera)
    /\ overlayFlip' = shouldFlip(overlayCamera)
    /\ tasks' = Finish(tasks, t)
    /\ ready' = Tail(ready)
    /\ UNCHANGED <<envVars, cameraInitState, camVars, mainSrc, videosPaused, modeVars,
                   dialogVars, stageVars>>
    /\ UNCHANGED <<captureError, dragVars>>

----------------------------------------------------------------------------
\* CameraProvider: handleVisibilityChange, stopAllStreams, resumeAllStreams

\* document becomes hidden: stopAllStreams()
VisibilityHidden ==
    /\ Macrotask /\ ~hidden
    /\ hidden' = TRUE
    /\ stream' = StopStream(StopStream(stream, mainCamera), overlayCamera)
    /\ mainSrc' = NoStream
    /\ overlaySrc' = NoStream
    /\ tasks' = RetireTasks(tasks, {mainCamera, overlayCamera})
    /\ UNCHANGED <<isIOS, hasVT, cameraInitState, ncams, facing, mainCamera, overlayCamera,
                   mainFlip, overlayFlip, videosPaused, modeVars, dialogVars, stageVars,
                   ready>>
    /\ UNCHANGED <<captureError, dragVars>>

\* document becomes visible: resumeAllStreams() up to its first await
VisibilityVisible ==
    /\ Macrotask /\ hidden
    /\ hidden' = FALSE
    /\ IF mainCamera = 0
       THEN /\ mainFlip' = shouldFlip(mainCamera)
            /\ overlayFlip' = shouldFlip(overlayCamera)
            /\ UNCHANGED <<tasks, ready>>
       ELSE LET rec == GetStreamCall([Idle EXCEPT !.kind = "resume", !.o = overlayCamera],
                                     stream, mainCamera, "r_main")
            IN /\ Avail >= 1
               /\ tasks' = [tasks EXCEPT ![Slot1] = rec]
               /\ ready' = Enq(ready, Slot1, rec)
               /\ UNCHANGED <<mainFlip, overlayFlip>>
    /\ UNCHANGED <<isIOS, hasVT, cameraInitState, camVars, mainSrc, overlaySrc,
                   videosPaused, modeVars, dialogVars, stageVars>>
    /\ UNCHANGED <<captureError, dragVars>>

\* mainVideoRef.current.srcObject = (awaited stream); then the overlay or the tail
ResumeBindMain(t) ==
    /\ Running(t) /\ tasks[t].pc = "r_main"
    /\ mainSrc' = tasks[t].res
    /\ IF tasks[t].o # 0 /\ ~isIOS
       THEN LET rec == GetStreamCall([tasks[t] EXCEPT !.o = 0], stream, tasks[t].o,
                                     "r_overlay")
            IN /\ tasks' = [tasks EXCEPT ![t] = rec]
               /\ ready' = Enq(Tail(ready), t, rec)
               /\ UNCHANGED <<mainFlip, overlayFlip>>
       ELSE /\ mainFlip' = shouldFlip(mainCamera)
            /\ overlayFlip' = shouldFlip(overlayCamera)
            /\ tasks' = Finish(tasks, t)
            /\ ready' = Tail(ready)
    /\ UNCHANGED <<envVars, cameraInitState, camVars, overlaySrc, videosPaused, modeVars,
                   dialogVars, stageVars>>
    /\ UNCHANGED <<captureError, dragVars>>

\* overlayVideoRef.current.srcObject = (awaited stream); updateOrientation()
ResumeBindOverlay(t) ==
    /\ Running(t) /\ tasks[t].pc = "r_overlay"
    /\ overlaySrc' = tasks[t].res
    /\ mainFlip' = shouldFlip(mainCamera)
    /\ overlayFlip' = shouldFlip(overlayCamera)
    /\ tasks' = Finish(tasks, t)
    /\ ready' = Tail(ready)
    /\ UNCHANGED <<envVars, cameraInitState, camVars, mainSrc, videosPaused, modeVars,
                   dialogVars, stageVars>>
    /\ UNCHANGED <<captureError, dragVars>>

----------------------------------------------------------------------------
\* canvas.ts

\* drawVideoToCanvas(video, flip): the frame the element shows, mirrored or not
drawVideoToCanvas(src, flip) ==
    [ok |-> TRUE, hasOv |-> FALSE]

\* drawOverlayOnMainCanvas(base, overlay, ...): the overlay drawn into the base
drawOverlayOnMainCanvas(base, ov) ==
    [base EXCEPT !.hasOv = TRUE]

----------------------------------------------------------------------------
\* CaptureButton.handleClick, useSequentialCaptureMode, useLiveCaptureMode,
\* playCaptureAnimation

CanClick == Macrotask /\ ~hidden /\ ~captureDialogOpen
CaptureTask(flow, img) == [Idle EXCEPT !.kind = "capture", !.flow = flow, !.img = img,
                                       !.step = sequentialStep]
\* where the capture function goes on after `await playCaptureAnimation(...)`
AfterAnim(flow) == IF flow = "overlay" THEN "ov_step" ELSE IF flow = "main" THEN "mn_after"
                   ELSE "lv_after"

\* getMainCameraVideo() / getOverlayCameraVideo() (the refs are mounted)
getMainCameraVideo == mainCamera # 0
getOverlayCameraVideo == overlayCamera # 0

\* playCaptureAnimation calls showDestination(): shown counts the calls this
\* activation's playCaptureAnimation has made
ShowDestination_Never(rec) == rec
ShowDestination(rec) == [rec EXCEPT !.shown = @ + 1]

\* playCaptureAnimation with the view transition: the staging canvas is drawn,
\* tagged and shown, and the function waits for the frame to be painted
AnimStage(t, rec, tag) ==
    /\ stagingActive' = TRUE
    /\ stagingTag' = tag
    /\ tasks' = [tasks EXCEPT ![t] = [rec EXCEPT !.pc = "anim", !.wait = "frame"]]
    /\ UNCHANGED ready

\* the callback of captureMainPhoto / live capture: the dialog opens on the image
ShowDialog(img) ==
    /\ capturedImage' = img
    /\ captureDialogOpen' = TRUE

\* the callback of captureOverlayPhoto: the preview is drawn and swapCameras()
\* is called; t is the capture task, rec its record after the callback returned
CallbackSwap(t, rec, q) ==
    IF overlayCamera = 0
    THEN /\ tasks' = [tasks EXCEPT ![t] = rec]
         /\ ready' = Enq(q, t, rec)
         /\ UNCHANGED <<camVars, mainSrc, overlaySrc>>
    ELSE LET s == IF tasks[t].kind = "none" THEN Slot2 ELSE Slot1
             sw == SwapTask("flip")
         IN /\ mainCamera' = SwapRoles.main
            /\ overlayCamera' = SwapRoles.overlay
            /\ stream' = SwapStream
            /\ mainSrc' = Retire(mainSrc, SwapStopped)
            /\ overlaySrc' = Retire(overlaySrc, SwapStopped)
            /\ tasks' = [RetireTasks(tasks, SwapStopped) EXCEPT ![t] = rec, ![s] = sw]
            /\ ready' = Enq(Enq(q, s, sw), t, rec)
            /\ UNCHANGED <<ncams, facing>>

\* sequential capture() at step 1: pauseVideos(), captureOverlayPhoto() up to its
\* first suspension
CaptureSeqOverlay ==
    /\ CanClick /\ Avail >= 2
    /\ currentMode = "sequential" /\ sequentialStep = 1
    /\ videosPaused' = TRUE
    /\ IF ~getMainCameraVideo
       THEN LET rec == [CaptureTask("overlay", NoImg) EXCEPT !.pc = "cap_play", !.wait = "queue"]
            IN /\ tasks' = [tasks EXCEPT ![Slot1] = rec]
               /\ ready' = Append(ready, Slot1)
               /\ UNCHANGED <<camVars, mainSrc, overlaySrc, capturedOverlay, stageVars>>
       ELSE LET img == drawVideoToCanvas(mainSrc, shouldFlip(mainCamera))
                rec == CaptureTask("overlay", img)
            IN /\ capturedOverlay' = img
               /\ IF hasVT
                  THEN /\ AnimStage(Slot1, rec, "overlay-preview")
                       /\ UNCHANGED <<camVars, mainSrc, overlaySrc>>
                  ELSE /\ CallbackSwap(Slot1,
                                       ShowDestination([rec EXCEPT !.pc = "ov_step",
                                                                   !.wait = "queue"]),
                                       ready)
                       /\ UNCHANGED stageVars
    /\ UNCHANGED <<envVars, cameraInitState, mainFlip, overlayFlip, currentMode,
                   sequentialStep, dialogVars>>
    /\ UNCHANGED <<captureError, dragVars>>

\* captureMainPhoto() (sequential steps 0 and 2) and the live capture() share the
\* shape: freeze, composite, play the animation into the dialog
CaptureToDialog(flow, img) ==
    /\ videosPaused' = TRUE
    /\ IF ~getMainCameraVideo
       THEN UNCHANGED <<tasks, ready, dialogVars, stageVars>>
       ELSE IF hasVT
            THEN /\ AnimStage(Slot1, CaptureTask(flow, img), "dialog-image")
                 /\ UNCHANGED dialogVars
            ELSE LET rec == ShowDestination([CaptureTask(flow, img) EXCEPT
                                                 !.pc = AfterAnim(flow), !.wait = "queue"])
                 IN /\ ShowDialog(img)
                    /\ tasks' = [tasks EXCEPT ![Slot1] = rec]
                    /\ ready' = Append(ready, Slot1)
                    /\ UNCHANGED stageVars
    /\ UNCHANGED <<envVars, cameraInitState, camVars, elVars, modeVars>>

\* sequential capture() at step 0 or 2: pauseVideos(), captureMainPhoto()
CaptureSeqMain ==
    /\ CanClick /\ Avail >= 1
    /\ currentMode = "sequential" /\ sequentialStep \in {0, 2}
    /\ LET frame == drawVideoToCanvas(mainSrc, shouldFlip(mainCamera))
       IN CaptureToDialog("main", IF capturedOverlay.ok
                                  THEN drawOverlayOnMainCanvas(frame, capturedOverlay)
                                  ELSE frame)
    /\ UNCHANGED <<captureError, dragVars>>

\* live capture(): pauseVideos(), main frame, overlay frame if there is an
\* overlay camera
CaptureLive ==
    /\ CanClick /\ Avail >= 1
    /\ currentMode = "live"
    /\ LET frame == drawVideoToCanvas(mainSrc, shouldFlip(mainCamera))
           ov == drawVideoToCanvas(overlaySrc, shouldFlip(overlayCamera))
       IN CaptureToDialog("live", IF getOverlayCameraVideo
                                  THEN drawOverlayOnMainCanvas(frame, ov)
                                  ELSE frame)
    /\ UNCHANGED <<captureError, dragVars>>

\* A capture() in which a canvas call throws.  Nothing in handleClick,
\* capture(), captureOverlayPhoto, captureMainPhoto or playCaptureAnimation
\* catches: the function stops where the call threw and the promise of
\* handleClick is rejected.

\* what the capture functions have assigned when drawVideoToCanvas or
\* drawOverlayOnMainCanvas throws: nothing yet (pauseVideos() has run)
AfterDrawFailure_StepTaken ==
    [capturedOverlay |-> capturedOverlay,
     sequentialStep |-> IF sequentialStep = 1 THEN 2 ELSE sequentialStep]
AfterDrawFailure == [capturedOverlay |-> capturedOverlay, sequentialStep |-> sequentialStep]

\* capture() in any mode and step; the freeze or the compositing throws
CaptureDrawFails ==
    /\ CanClick
    /\ getMainCameraVideo
    /\ videosPaused' = TRUE
    /\ capturedOverlay' = AfterDrawFailure.capturedOverlay
    /\ sequentialStep' = AfterDrawFailure.sequentialStep
    /\ captureError' = "draw"
    /\ UNCHANGED <<envVars, cameraInitState, camVars, elVars, currentMode, dialogVars,
                   stageVars, tasks, ready>>
    /\ UNCHANGED dragVars

\* capture() in any mode and step; the frame was drawn (and, in
\* captureOverlayPhoto, stored in capturedOverlay), then drawing it into the
\* staging canvas throws in playCaptureAnimation
CaptureStageFails ==
    /\ CanClick
    /\ getMainCameraVideo /\ hasVT
    /\ videosPaused' = TRUE
    /\ capturedOverlay' = IF currentMode = "sequential" /\ sequentialStep = 1
                          THEN drawVideoToCanvas(mainSrc, shouldFlip(mainCamera))
                          ELSE capturedOverlay
    /\ captureError' = "stage"
    /\ UNCHANGED <<envVars, cameraInitState, camVars, elVars, currentMode, sequentialStep,
                   dialogVars, stageVars, tasks, ready>>
    /\ UNCHANGED dragVars

\* afterframe fires: document.startViewTransition(callback) is called
AnimFrame(t) ==
    /\ Macrotask /\ ~hidden
    /\ tasks[t].wait = "frame"
    /\ tasks' = [tasks EXCEPT ![t].wait = "flip"]
    /\ UNCHANGED <<envVars, cameraInitState, camVars, elVars, videosPaused, modeVars,
                   dialogVars, stageVars, ready>>
    /\ UNCHANGED <<captureError, dragVars>>

\* the transition's update callback of an overlay capture: staging hidden,
\* preview drawn, swapCameras() called
FlipOverlay(t) ==
    /\ Macrotask
    /\ tasks[t].wait = "flip" /\ tasks[t].flow = "overlay"
    /\ stagingActive' = FALSE
    /\ CallbackSwap(t, ShowDestination([tasks[t] EXCEPT !.wait = "finish"]), ready)
    /\ UNCHANGED <<envVars, cameraInitState, mainFlip, overlayFlip, videosPaused, modeVars,
                   dialogVars, stagingTag>>
    /\ UNCHANGED <<captureError, dragVars>>

\* the transition's update callback of a main or live capture: staging hidden,
\* dialog opened
FlipDialog(t) ==
    /\ Macrotask
    /\ tasks[t].wait = "flip" /\ tasks[t].flow # "overlay"
    /\ stagingActive' = FALSE
    /\ ShowDialog(tasks[t].img)
    /\ tasks' = [tasks EXCEPT ![t] = ShowDestination([tasks[t] EXCEPT !.wait = "finish"])]
    /\ UNCHANGED <<envVars, cameraInitState, camVars, elVars, videosPaused, modeVars,
                   stagingTag, ready>>
    /\ UNCHANGED <<captureError, dragVars>>

\* transition.finished resolves
AnimFinished(t) ==
    /\ Macrotask
    /\ tasks[t].wait = "finish"
    /\ tasks' = [tasks EXCEPT ![t].pc = "anim_cleanup", ![t].wait = "queue"]
    /\ ready' = Append(ready, t)
    /\ UNCHANGED <<envVars, cameraInitState, camVars, elVars, videosPaused, modeVars,
                   dialogVars, stageVars>>
    /\ UNCHANGED <<captureError, dragVars>>

\* playCaptureAnimation cleans up and returns to the capture function
AnimCleanup(t) ==
    /\ Running(t) /\ tasks[t].pc = "anim_cleanup"
    /\ stagingTag' = ""
    /\ tasks' = [tasks EXCEPT ![t].pc = AfterAnim(tasks[t].flow)]
    /\ ready' = Append(Tail(ready), t)
    /\ UNCHANGED <<envVars, cameraInitState, camVars, elVars, videosPaused, modeVars,
                   dialogVars, stagingActive>>
    /\ UNCHANGED <<captureError, dragVars>>

\* captureOverlayPhoto after the animation: sequentialStep = 2
OverlayStep(t) ==
    /\ Running(t) /\ tasks[t].pc = "ov_step"
    /\ sequentialStep' = 2
    /\ tasks' = [tasks EXCEPT ![t].pc = "cap_play"]
    /\ ready' = Append(Tail(ready), t)
    /\ UNCHANGED <<envVars, cameraInitState, camVars, elVars, videosPaused, currentMode,
                   capturedOverlay, dialogVars, stageVars>>
    /\ UNCHANGED <<captureError, dragVars>>

\* capture() after captureOverlayPhoto(): playVideos()
CapturePlay(t) ==
    /\ Running(t) /\ tasks[t].pc = "cap_play"
    /\ videosPaused' = FALSE
    /\ tasks' = Finish(tasks, t)
    /\ ready' = Tail(ready)
    /\ UNCHANGED <<envVars, cameraInitState, camVars, elVars, modeVars, dialogVars,
                   stageVars>>
    /\ UNCHANGED <<captureError, dragVars>>

\* captureMainPhoto after the animation: resetSequentialMode() if hasDualCameras,
\* up to the await in its swapCameras(); nothing is left to do after that swap,
\* so the activation goes on as that swapCameras() call
MainAfter(t) ==
    /\ Running(t) /\ tasks[t].pc = "mn_after"
    /\ IF overlayCamera # 0
       THEN LET sw == [SwapTask("main") EXCEPT !.step = tasks[t].step]
            IN /\ capturedOverlay' = NoImg
               /\ sequentialStep' = 1
               /\ mainCamera' = SwapRoles.main
               /\ overlayCamera' = SwapRoles.overlay
               /\ stream' = SwapStream
               /\ mainSrc' = Retire(mainSrc, SwapStopped)
               /\ overlaySrc' = Retire(overlaySrc, SwapStopped)
               /\ tasks' = [RetireTasks(tasks, SwapStopped) EXCEPT ![t] = sw]
               /\ ready' = Enq(Tail(ready), t, sw)
               /\ UNCHANGED <<ncams, facing>>
       ELSE /\ tasks' = Finish(tasks, t)
            /\ ready' = Tail(ready)
            /\ UNCHANGED <<camVars, mainSrc, overlaySrc, capturedOverlay, sequentialStep>>
    /\ UNCHANGED <<envVars, cameraInitState, mainFlip, overlayFlip, videosPaused,
                   currentMode, dialogVars, stageVars>>
    /\ UNCHANGED <<captureError, dragVars>>

\* the live capture() returns after the animation: the videos stay paused
CaptureEnd(t) ==
    /\ Running(t) /\ tasks[t].pc = "lv_after"
    /\ tasks' = Finish(tasks, t)
    /\ ready' = Tail(ready)
    /\ UNCHANGED <<envVars, cameraInitState, camVars, elVars, videosPaused, modeVars,
                   dialogVars, stageVars>>
    /\ UNCHANGED <<captureError, dragVars>>

\* CaptureDialog.close: the dialog closes and playVideos() runs
CloseDialog ==
    /\ Macrotask /\ ~hidden /\ captureDialogOpen
    /\ captureDialogOpen' = FALSE
    /\ capturedImage' = NoImg
    /\ videosPaused' = FALSE
    /\ UNCHANGED <<envVars, cameraInitState, camVars, elVars, modeVars, stageVars, tasks,
                   ready>>
    /\ UNCHANGED <<captureError, dragVars>>

----------------------------------------------------------------------------
\* ModeToggleButton

\* the button is rendered with class "show" only off iOS with two cameras; the
\* click handler does not look at it
showButton == ~isIOS /\ overlayCamera # 0

\* handleClick returns at once on iOS: if (isIOS.value) return
TogglePermitted_Always == TRUE
TogglePermitted == ~isIOS

\* what handleClick assigns when it leaves sequential mode: capturedOverlay,
\* sequentialStep, currentMode
LeaveSequential_KeepStep == [capturedOverlay |-> NoImg, sequentialStep |-> sequentialStep,
                             currentMode |-> "live"]
LeaveSequential == [capturedOverlay |-> NoImg, sequentialStep |-> 0, currentMode |-> "live"]

\* the roles handleClick leaves behind: it assigns capturedOverlay,
\* sequentialStep and currentMode and nothing else, so an exchange made by an
\* overlay capture is not undone
RolesAfterToggle_Restore ==
    IF currentMode = "sequential" /\ sequentialStep = 2
    THEN [main |-> overlayCamera, overlay |-> mainCamera]
    ELSE [main |-> mainCamera, overlay |-> overlayCamera]
RolesAfterToggle == [main |-> mainCamera, overlay |-> overlayCamera]

\* handleClick
ToggleMode ==
    /\ CanClick
    /\ IF ~TogglePermitted
       THEN UNCHANGED modeVars
       ELSE IF currentMode = "sequential"
            THEN /\ capturedOverlay' = LeaveSequential.capturedOverlay
                 /\ sequentialStep' = LeaveSequential.sequentialStep
                 /\ currentMode' = LeaveSequential.currentMode
            ELSE /\ currentMode' = "sequential"
                 /\ sequentialStep' = 1
                 /\ UNCHANGED capturedOverlay
    /\ mainCamera' = RolesAfterToggle.main
    /\ overlayCamera' = RolesAfterToggle.overlay
    /\ UNCHANGED <<envVars, cameraInitState, ncams, facing, stream, elVars, videosPaused,
                   dialogVars, stageVars, tasks, ready>>
    /\ UNCHANGED <<captureError, dragVars>>

----------------------------------------------------------------------------
\* The status toast (showStatus.ts) is followed in SpecStatus below; here and in
\* the specifications built from these actions it stays as initCameras left it,
\* and so do the units that have a specification of their own.
Next ==
    \/ \E t \in 1..MaxTasks, list \in CameraLists : InitGotCameras(t, list) /\ UNCHANGED <<statusVars, unitVars>>
    \/ \E t \in 1..MaxTasks : InitBindMain(t) /\ UNCHANGED <<statusVars, unitVars>>
    \/ \E t \in 1..MaxTasks : InitBindOverlay(t) /\ UNCHANGED <<statusVars, unitVars>>
    \/ \E t \in 1..MaxTasks : AcquireOk(t) /\ UNCHANGED <<statusVars, unitVars>>
    \/ \E t \in 1..MaxTasks : AcquireFail(t) /\ UNCHANGED <<statusVars, unitVars>>
    \/ ClickSwap /\ UNCHANGED <<statusVars, unitVars>>
    \/ \E t \in 1..MaxTasks : SwapBindMain(t) /\ UNCHANGED <<statusVars, unitVars>>
    \/ \E t \in 1..MaxTasks : SwapBindOverlay(t) /\ UNCHANGED <<statusVars, unitVars>>
    \/ VisibilityHidden /\ UNCHANGED <<statusVars, unitVars>>
    \/ VisibilityVisible /\ UNCHANGED <<statusVars, unitVars>>
    \/ \E t \in 1..MaxTasks : ResumeBindMain(t) /\ UNCHANGED <<statusVars, unitVars>>
    \/ \E t \in 1..MaxTasks : ResumeBindOverlay(t) /\ UNCHANGED <<statusVars, unitVars>>
    \/ CaptureSeqOverlay /\ UNCHANGED <<statusVars, unitVars>>
    \/ CaptureSeqMain /\ UNCHANGED <<statusVars, unitVars>>
    \/ CaptureLive /\ UNCHANGED <<statusVars, unitVars>>
    \/ \E t \in 1..MaxTasks : AnimFrame(t) /\ UNCHANGED <<statusVars, unitVars>>
    \/ \E t \in 1..MaxTasks : FlipOverlay(t) /\ UNCHANGED <<statusVars, unitVars>>
    \/ \E t \in 1..MaxTasks : FlipDialog(t) /\ UNCHANGED <<statusVars, unitVars>>
    \/ \E t \in 1..MaxTasks : AnimFinished(t) /\ UNCHANGED <<statusVars, unitVars>>
    \/ \E t \in 1..MaxTasks : AnimCleanup(t) /\ UNCHANGED <<statusVars, unitVars>>
    \/ \E t \in 1..MaxTasks : OverlayStep(t) /\ UNCHANGED <<statusVars, unitVars>>
    \/ \E t \in 1..MaxTasks : CapturePlay(t) /\ UNCHANGED <<statusVars, unitVars>>
    \/ \E t \in 1..MaxTasks : MainAfter(t) /\ UNCHANGED <<statusVars, unitVars>>
    \/ \E t \in 1..MaxTasks : CaptureEnd(t) /\ UNCHANGED <<statusVars, unitVars>>
    \/ CloseDialog /\ UNCHANGED <<statusVars, unitVars>>
    \/ ToggleMode /\ UNCHANGED <<statusVars, unitVars>>

Spec == Init /\ [][Next]_vars

TypeOK ==
    /\ mainCamera \in 0..2 /\ overlayCamera \in 0..2
    /\ sequentialStep \in 0..2
    /\ currentMode \in {"live", "sequential"}
    /\ \A i \in 1..Len(ready) : tasks[ready[i]].wait = "queue"
    /\ \A t \in 1..MaxTasks : tasks[t].wait = "queue" => \E i \in 1..Len(ready) : ready[i] = t

----------------------------------------------------------------------------
\* Calls issued one at a time: the user acts only after initCameras has
\* finished and while no capture() is in flight, captures only in sequential
\* mode, and toggles the mode only to enter sequential mode; no acquisition
\* fails, the page stays visible and nobody swaps the cameras by hand.

NoCaptureInFlight ==
    \A t \in 1..MaxTasks : /\ tasks[t].kind # "capture"
                           /\ ~(tasks[t].kind = "swap" /\ tasks[t].flow = "main")
OneAtATime == cameraInitState = "ready" /\ NoCaptureInFlight

SeqCaptureOverlay == OneAtATime /\ CaptureSeqOverlay
SeqCaptureMain == OneAtATime /\ CaptureSeqMain
SeqEnterSequential == OneAtATime /\ currentMode = "live" /\ ToggleMode

NextSeq ==
    \/ \E t \in 1..MaxTasks, list \in CameraLists : InitGotCameras(t, list) /\ UNCHANGED <<statusVars, unitVars>>
    \/ \E t \in 1..MaxTasks : InitBindMain(t) /\ UNCHANGED <<statusVars, unitVars>>
    \/ \E t \in 1..MaxTasks : InitBindOverlay(t) /\ UNCHANGED <<statusVars, unitVars>>
    \/ \E t \in 1..MaxTasks : AcquireOk(t) /\ UNCHANGED <<statusVars, unitVars>>
    \/ \E t \in 1..MaxTasks : SwapBindMain(t) /\ UNCHANGED <<statusVars, unitVars>>
    \/ \E t \in 1..MaxTasks : SwapBindOverlay(t) /\ UNCHANGED <<statusVars, unitVars>>
    \/ SeqCaptureOverlay /\ UNCHANGED <<statusVars, unitVars>>
    \/ SeqCaptureMain /\ UNCHANGED <<statusVars, unitVars>>
    \/ \E t \in 1..MaxTasks : AnimFrame(t) /\ UNCHANGED <<statusVars, unitVars>>
    \/ \E t \in 1..MaxTasks : FlipOverlay(t) /\ UNCHANGED <<statusVars, unitVars>>
    \/ \E t \in 1..MaxTasks : FlipDialog(t) /\ UNCHANGED <<statusVars, unitVars>>
    \/ \E t \in 1..MaxTasks : AnimFinished(t) /\ UNCHANGED <<statusVars, unitVars>>
    \/ \E t \in 1..MaxTasks : AnimCleanup(t) /\ UNCHANGED <<statusVars, unitVars>>
    \/ \E t \in 1..MaxTasks : OverlayStep(t) /\ UNCHANGED <<statusVars, unitVars>>
    \/ \E t \in 1..MaxTasks : CapturePlay(t) /\ UNCHANGED <<statusVars, unitVars>>
    \/ \E t \in 1..MaxTasks : MainAfter(t) /\ UNCHANGED <<statusVars, unitVars>>
    \/ CloseDialog /\ UNCHANGED <<statusVars, unitVars>>
    \/ SeqEnterSequential /\ UNCHANGED <<statusVars, unitVars>>

SpecSeq == Init /\ [][NextSeq]_vars

----------------------------------------------------------------------------
\* The program after init: the user and the page's visibility act only once
\* initCameras has finished (with cameras or with the "no cameras" error).

InitDone == cameraInitState # "pending"

NextReady ==
    \/ \E t \in 1..MaxTasks, list \in CameraLists : InitGotCameras(t, list) /\ UNCHANGED <<statusVars, unitVars>>
    \/ \E t \in 1..MaxTasks : InitBindMain(t) /\ UNCHANGED <<statusVars, unitVars>>
    \/ \E t \in 1..MaxTasks : InitBindOverlay(t) /\ UNCHANGED <<statusVars, unitVars>>
    \/ \E t \in 1..MaxTasks : AcquireOk(t) /\ UNCHANGED <<statusVars, unitVars>>
    \/ \E t \in 1..MaxTasks : AcquireFail(t) /\ UNCHANGED <<statusVars, unitVars>>
    \/ InitDone /\ ClickSwap /\ UNCHANGED <<statusVars, unitVars>>
    \/ \E t \in 1..MaxTasks : SwapBindMain(t) /\ UNCHANGED <<statusVars, unitVars>>
    \/ \E t \in 1..MaxTasks : SwapBindOverlay(t) /\ UNCHANGED <<statusVars, unitVars>>
    \/ InitDone /\ VisibilityHidden /\ UNCHANGED <<statusVars, unitVars>>
    \/ InitDone /\ VisibilityVisible /\ UNCHANGED <<statusVars, unitVars>>
    \/ \E t \in 1..MaxTasks : ResumeBindMain(t) /\ UNCHANGED <<statusVars, unitVars>>
    \/ \E t \in 1..MaxTasks : ResumeBindOverlay(t) /\ UNCHANGED <<statusVars, unitVars>>
    \/ InitDone /\ CaptureSeqOverlay /\ UNCHANGED <<statusVars, unitVars>>
    \/ InitDone /\ CaptureSeqMain /\ UNCHANGED <<statusVars, unitVars>>
    \/ InitDone /\ CaptureLive /\ UNCHANGED <<statusVars, unitVars>>
    \/ \E t \in 1..MaxTasks : AnimFrame(t) /\ UNCHANGED <<statusVars, unitVars>>
    \/ \E t \in 1..MaxTasks : FlipOverlay(t) /\ UNCHANGED <<statusVars, unitVars>>
    \/ \E t \in 1..MaxTasks : FlipDialog(t) /\ UNCHANGED <<statusVars, unitVars>>
    \/ \E t \in 1..MaxTasks : AnimFinished(t) /\ UNCHANGED <<statusVars, unitVars>>
    \/ \E t \in 1..MaxTasks : AnimCleanup(t) /\ UNCHANGED <<statusVars, unitVars>>
    \/ \E t \in 1..MaxTasks : OverlayStep(t) /\ UNCHANGED <<statusVars, unitVars>>
    \/ \E t \in 1..MaxTasks : CapturePlay(t) /\ UNCHANGED <<statusVars, unitVars>>
    \/ \E t \in 1..MaxTasks : MainAfter(t) /\ UNCHANGED <<statusVars, unitVars>>
    \/ \E t \in 1..MaxTasks : CaptureEnd(t) /\ UNCHANGED <<statusVars, unitVars>>
    \/ CloseDialog /\ UNCHANGED <<statusVars, unitVars>>
    \/ InitDone /\ ToggleMode /\ UNCHANGED <<statusVars, unitVars>>

SpecReady == Init /\ [][NextReady]_vars

\* The capture paths after init with canvas calls that can throw: the page
\* stays visible, nobody swaps the cameras by hand, every acquisition succeeds.
NextFault ==
    \/ \E t \in 1..MaxTasks, list \in CameraLists : InitGotCameras(t, list) /\ UNCHANGED <<statusVars, unitVars>>
    \/ \E t \in 1..MaxTasks : InitBindMain(t) /\ UNCHANGED <<statusVars, unitVars>>
    \/ \E t \in 1..MaxTasks : InitBindOverlay(t) /\ UNCHANGED <<statusVars, unitVars>>
    \/ \E t \in 1..MaxTasks : AcquireOk(t) /\ UNCHANGED <<statusVars, unitVars>>
    \/ \E t \in 1..MaxTasks : SwapBindMain(t) /\ UNCHANGED <<statusVars, unitVars>>
    \/ \E t \in 1..MaxTasks : SwapBindOverlay(t) /\ UNCHANGED <<statusVars, unitVars>>
    \/ InitDone /\ CaptureSeqOverlay /\ UNCHANGED <<statusVars, unitVars>>
    \/ InitDone /\ CaptureSeqMain /\ UNCHANGED <<statusVars, unitVars>>
    \/ InitDone /\ CaptureLive /\ UNCHANGED <<statusVars, unitVars>>
    \/ InitDone /\ CaptureDrawFails /\ UNCHANGED <<statusVars, unitVars>>
    \/ InitDone /\ CaptureStageFails /\ UNCHANGED <<statusVars, unitVars>>
    \/ \E t \in 1..MaxTasks : AnimFrame(t) /\ UNCHANGED <<statusVars, unitVars>>
    \/ \E t \in 1..MaxTasks : FlipOverlay(t) /\ UNCHANGED <<statusVars, unitVars>>
    \/ \E t \in 1..MaxTasks : FlipDialog(t) /\ UNCHANGED <<statusVars, unitVars>>
    \/ \E t \in 1..MaxTasks : AnimFinished(t) /\ UNCHANGED <<statusVars, unitVars>>
    \/ \E t \in 1..MaxTasks : AnimCleanup(t) /\ UNCHANGED <<statusVars, unitVars>>
    \/ \E t \in 1..MaxTasks : OverlayStep(t) /\ UNCHANGED <<statusVars, unitVars>>
    \/ \E t \in 1..MaxTasks : CapturePlay(t) /\ UNCHANGED <<statusVars, unitVars>>
    \/ \E t \in 1..MaxTasks : MainAfter(t) /\ UNCHANGED <<statusVars, unitVars>>
    \/ \E t \in 1..MaxTasks : CaptureEnd(t) /\ UNCHANGED <<statusVars, unitVars>>
    \/ CloseDialog /\ UNCHANGED <<statusVars, unitVars>>
    \/ InitDone /\ ToggleMode /\ UNCHANGED <<statusVars, unitVars>>

SpecFault == Init /\ [][NextFault]_vars

----------------------------------------------------------------------------
\* Overlay drag-to-snap controller (hooks/useOverlayPosition.ts), the one of
\* the overlay video: its options.onTap is swapCameras, which is counted here.

DRAG_THRESHOLD == 10
\* bounds of the drag model
MaxTaps == 2
MaxTimers == 2

Corners == {"top-left", "top-right", "bottom-left", "bottom-right"}
\* the window and the overlay element (px)
innerWidth == 400
innerHeight == 600
elWidth == 100
elHeight == 140
safeAreaBottom == 0
\* the points (clientX, clientY) pointer events happen at
Points == {<<60, 60>>, <<63, 64>>, <<66, 68>>, <<67, 68>>,
           <<320, 60>>, <<60, 400>>, <<320, 400>>}

appVars == <<envVars, cameraInitState, camVars, elVars, videosPaused, modeVars, dialogVars,
             stageVars, captureError, tasks, ready>>

findNearestCorner(x, y) ==
    LET isLeft == x < innerWidth \div 2
        isTop == y < innerHeight \div 2
    IN IF isTop /\ isLeft THEN "top-left"
       ELSE IF isTop /\ ~isLeft THEN "top-right"
       ELSE IF ~isTop /\ isLeft THEN "bottom-left"
       ELSE "bottom-right"

calculateCornerPosition(corner) ==
    LET margin == 20
        bottomMargin == IF safeAreaBottom + 80 > 100 THEN safeAreaBottom + 80 ELSE 100
    IN CASE corner = "top-left" -> <<margin, margin>>
         [] corner = "top-right" -> <<innerWidth - elWidth - margin, margin>>
         [] corner = "bottom-left" -> <<margin, innerHeight - elHeight - bottomMargin>>
         [] corner = "bottom-right" -> <<innerWidth - elWidth - margin,
                                         innerHeight - elHeight - bottomMargin>>

\* el.getBoundingClientRect(): <<left, top>>.  The inline left/top win over the
\* corner class; the corner classes place the element where
\* calculateCornerPosition says; a snap animation is taken as arrived.
getBoundingClientRect ==
    IF elStyle # NoPos THEN elStyle
    ELSE IF elCorner \in Corners THEN calculateCornerPosition(elCorner)
    ELSE <<0, 0>>

Inside(p, rect) ==
    /\ rect[1] <= p[1] /\ p[1] <= rect[1] + elWidth
    /\ rect[2] <= p[2] /\ p[2] <= rect[2] + elHeight

\* deltaX * deltaX + deltaY * deltaY
SquaredDistance(p, q) == (p[1] - q[1]) * (p[1] - q[1]) + (p[2] - q[2]) * (p[2] - q[2])

\* distance > DRAG_THRESHOLD, with distance = Math.sqrt(d2)
ExceedsThreshold_Double(d2) == d2 > 2 * DRAG_THRESHOLD * DRAG_THRESHOLD
ExceedsThreshold_Any(d2) == d2 > 0
ExceedsThreshold(d2) == d2 > DRAG_THRESHOLD * DRAG_THRESHOLD

\* applyCornerClass(corner): every overlay-corner-* class is removed from the
\* element and the one of corner is added
applyCornerClass_Keep(corner) == elCorner
applyCornerClass(corner) == corner

\* handlePointerDown: the listener is on the element.  There is one pointer:
\* it goes down only while it is up.
PointerDown(p, button) ==
    /\ Macrotask
    /\ ~isDragging
    /\ Inside(p, getBoundingClientRect)
    /\ IF button # 0
       THEN UNCHANGED dragVars
       ELSE /\ isDragging' = TRUE
            /\ hasMoved' = FALSE
            /\ dragStart' = p
            /\ elementStart' = getBoundingClientRect
            /\ farthest' = 0
            /\ cancelledFrom' = ""
            /\ UNCHANGED <<elStyle, elCorner, elDragging, overlayCorner, snapTimers, taps>>
    /\ UNCHANGED appVars

\* handlePointerMove (document listener)
PointerMove(p) ==
    /\ Macrotask
    /\ IF ~isDragging
       THEN UNCHANGED dragVars
       ELSE LET deltaX == p[1] - dragStart[1]
                deltaY == p[2] - dragStart[2]
                d2 == SquaredDistance(p, dragStart)
                starts == ~hasMoved /\ ExceedsThreshold(d2)
                moved == hasMoved \/ starts
            IN /\ hasMoved' = moved
               /\ elCorner' = IF starts /\ elCorner = overlayCorner THEN "none" ELSE elCorner
               /\ elDragging' = (elDragging \/ starts)
               /\ elStyle' = IF moved
                             THEN <<elementStart[1] + deltaX, elementStart[2] + deltaY>>
                             ELSE elStyle
               /\ farthest' = IF d2 > farthest THEN d2 ELSE farthest
               /\ UNCHANGED <<isDragging, dragStart, elementStart, overlayCorner,
                              snapTimers, taps, cancelledFrom>>
    /\ UNCHANGED appVars

\* handlePointerUp (document listener)
PointerUp ==
    /\ Macrotask
    /\ (isDragging /\ hasMoved) => Len(snapTimers) < MaxTimers
    /\ (isDragging /\ ~hasMoved) => taps < MaxTaps
    /\ IF ~isDragging
       THEN UNCHANGED dragVars
       ELSE /\ IF hasMoved
               THEN LET rect == getBoundingClientRect
                        centerX == rect[1] + elWidth \div 2
                        centerY == rect[2] + elHeight \div 2
                        newCorner == findNearestCorner(centerX, centerY)
                    IN /\ elDragging' = FALSE
                       /\ elStyle' = calculateCornerPosition(newCorner)
                       /\ snapTimers' = Append(snapTimers, newCorner)
                       /\ UNCHANGED taps
               ELSE /\ taps' = taps + 1
                    /\ UNCHANGED <<elDragging, elStyle, snapTimers>>
            /\ isDragging' = FALSE
            /\ hasMoved' = FALSE
            /\ farthest' = 0
            /\ UNCHANGED <<dragStart, elementStart, elCorner, overlayCorner, cancelledFrom>>
    /\ UNCHANGED appVars

\* handlePointerCancel (document listener)
PointerCancel ==
    /\ Macrotask
    /\ IF ~isDragging
       THEN UNCHANGED dragVars
       ELSE /\ elDragging' = FALSE
            /\ elStyle' = NoPos
            /\ elCorner' = applyCornerClass(overlayCorner)
            /\ isDragging' = FALSE
            /\ hasMoved' = FALSE
            /\ farthest' = 0
            /\ cancelledFrom' = IF hasMoved THEN "Dragging" ELSE "PotentialDrag"
            /\ UNCHANGED <<dragStart, elementStart, overlayCorner, snapTimers, taps>>
    /\ UNCHANGED appVars

\* the setTimeout callback of handlePointerUp, transitionDuration later
SnapTimer ==
    /\ Macrotask
    /\ snapTimers # <<>>
    /\ elStyle' = NoPos
    /\ elCorner' = applyCornerClass(Head(snapTimers))
    /\ overlayCorner' = Head(snapTimers)
    /\ snapTimers' = Tail(snapTimers)
    /\ UNCHANGED <<isDragging, hasMoved, dragStart, elementStart, elDragging, taps, farthest,
                   cancelledFrom>>
    /\ UNCHANGED appVars

NextDrag ==
    \/ \E p \in Points, button \in {0, 2} : PointerDown(p, button) /\ UNCHANGED <<statusVars, unitVars>>
    \/ \E p \in Points : PointerMove(p) /\ UNCHANGED <<statusVars, unitVars>>
    \/ PointerUp /\ UNCHANGED <<statusVars, unitVars>>
    \/ PointerCancel /\ UNCHANGED <<statusVars, unitVars>>
    \/ SnapTimer /\ UNCHANGED <<statusVars, unitVars>>

SpecDrag == Init /\ [][NextDrag]_vars

----------------------------------------------------------------------------
\* Status toast (showStatus.ts) and the handlers that report on it:
\* initCameras, handleVisibilityChange and ModeToggleButton.handleClick.

\* showStatus without its clearTimeout: an earlier hide timer stays pending
showStatus_NoClear(message, duration) ==
    /\ statusText' = message
    /\ statusShown' = TRUE
    /\ hideTimeout' = duration
    /\ hideTimers' = IF duration THEN hideTimers + 1 ELSE hideTimers
    /\ hideTimers' <= MaxTimers

\* showStatus(message, duration); duration: a (non-zero) duration was passed
showStatus(message, duration) ==
    LET kept == IF hideTimeout THEN hideTimers - 1 ELSE hideTimers
    IN /\ statusText' = message
       /\ statusShown' = TRUE
       /\ hideTimeout' = duration
       /\ hideTimers' = IF duration THEN kept + 1 ELSE kept

\* the setTimeout callback of showStatus
HideStatus ==
    /\ Macrotask
    /\ hideTimers > 0
    /\ statusShown' = FALSE
    /\ hideTimeout' = FALSE
    /\ hideTimers' = hideTimers - 1
    /\ UNCHANGED statusText
    /\ UNCHANGED <<appVars, dragVars>>

\* initCameras once getCameras has returned
InitCamerasReport(t, list) ==
    /\ InitGotCameras(t, list)
    /\ IF Len(list) = 0
       THEN showStatus("Error: No cameras found", FALSE)
       ELSE UNCHANGED statusVars

\* handleVisibilityChange, page shown: showStatus("Resuming cameras..."), then
\* resumeAllStreams(); with no camera assigned that call awaits nothing and
\* showStatus("Cameras resumed!", 2000) follows in the same turn
VisibilityShownReport ==
    /\ VisibilityVisible
    /\ IF mainCamera = 0
       THEN showStatus("Cameras resumed!", TRUE)
       ELSE showStatus("Resuming cameras...", FALSE)

\* handleVisibilityChange after resumeAllStreams() has returned
ResumeMainReport(t) ==
    /\ ResumeBindMain(t)
    /\ IF tasks'[t] = Idle
       THEN showStatus("Cameras resumed!", TRUE)
       ELSE UNCHANGED statusVars
ResumeOverlayReport(t) ==
    /\ ResumeBindOverlay(t)
    /\ showStatus("Cameras resumed!", TRUE)

\* a getUserMedia request rejects; the catch of handleVisibilityChange
AcquireFailReport(t) ==
    /\ AcquireFail(t)
    /\ IF tasks[t].kind = "resume"
       THEN showStatus("Error resuming cameras", FALSE)
       ELSE UNCHANGED statusVars

\* ModeToggleButton.handleClick
ToggleModeReport ==
    /\ ToggleMode
    /\ IF ~TogglePermitted THEN UNCHANGED statusVars
       ELSE IF currentMode = "sequential"
            THEN showStatus("Dual camera capture mode", TRUE)
            ELSE showStatus("Sequential capture mode", TRUE)

NextStatus ==
    \/ \E t \in 1..MaxTasks, list \in CameraLists : InitCamerasReport(t, list) /\ UNCHANGED unitVars
    \/ \E t \in 1..MaxTasks : InitBindMain(t) /\ UNCHANGED <<statusVars, unitVars>>
    \/ \E t \in 1..MaxTasks : InitBindOverlay(t) /\ UNCHANGED <<statusVars, unitVars>>
    \/ \E t \in 1..MaxTasks : AcquireOk(t) /\ UNCHANGED <<statusVars, unitVars>>
    \/ \E t \in 1..MaxTasks : AcquireFailReport(t) /\ UNCHANGED unitVars
    \/ InitDone /\ ClickSwap /\ UNCHANGED <<statusVars, unitVars>>
    \/ \E t \in 1..MaxTasks : SwapBindMain(t) /\ UNCHANGED <<statusVars, unitVars>>
    \/ \E t \in 1..MaxTasks : SwapBindOverlay(t) /\ UNCHANGED <<statusVars, unitVars>>
    \/ InitDone /\ VisibilityHidden /\ UNCHANGED <<statusVars, unitVars>>
    \/ InitDone /\ VisibilityShownReport /\ UNCHANGED unitVars
    \/ \E t \in 1..MaxTasks : ResumeMainReport(t) /\ UNCHANGED unitVars
    \/ \E t \in 1..MaxTasks : ResumeOverlayReport(t) /\ UNCHANGED unitVars
    \/ InitDone /\ ToggleModeReport /\ UNCHANGED unitVars
    \/ HideStatus /\ UNCHANGED unitVars

SpecStatus == Init /\ [][NextStatus]_vars

----------------------------------------------------------------------------
\* One Camera object (getCameras.ts, class Camera) under arbitrary callers.

\* bounds of the Camera model
MaxHandles == 4
MaxCalls == 2

progVars == <<appVars, dragVars, statusVars>>

\* new Camera(stream, facingMode) with a stream that has a deviceId
CameraNew(facingMode) ==
    /\ camOp = "none"
    /\ camOp' = "new"
    /\ camStream' = nextHandle
    /\ liveStreams' = {nextHandle}
    /\ nextHandle' = nextHandle + 1
    /\ camDeviceId' = "device"
    /\ camFacingMode' = facingMode
    /\ UNCHANGED <<pendingCalls, stalePending, returned>>
    /\ UNCHANGED progVars

\* getStream() up to its await: the cached #stream, or a getUserMedia request
CameraGetStream ==
    /\ camOp # "none"
    /\ camOp' = "getStream"
    /\ IF camStream # 0
       THEN /\ returned' = returned \cup {camStream}
            /\ UNCHANGED pendingCalls
       ELSE /\ pendingCalls + stalePending < MaxCalls
            /\ pendingCalls' = pendingCalls + 1
            /\ UNCHANGED returned
    /\ UNCHANGED <<camStream, camDeviceId, camFacingMode, liveStreams, nextHandle, stalePending>>
    /\ UNCHANGED progVars

\* getUserMedia resolves: this.#stream = (the new stream); return this.#stream.
\* fresh: the call was made since the last stop()
CameraAcquired(fresh) ==
    /\ camOp # "none"
    /\ nextHandle <= MaxHandles
    /\ IF fresh
       THEN /\ pendingCalls > 0
            /\ pendingCalls' = pendingCalls - 1
            /\ returned' = returned \cup {nextHandle}
            /\ UNCHANGED stalePending
       ELSE /\ stalePending > 0
            /\ stalePending' = stalePending - 1
            /\ UNCHANGED <<pendingCalls, returned>>
    /\ camStream' = nextHandle
    /\ liveStreams' = liveStreams \cup {nextHandle}
    /\ nextHandle' = nextHandle + 1
    /\ camOp' = "acquired"
    /\ UNCHANGED <<camDeviceId, camFacingMode>>
    /\ UNCHANGED progVars

\* getUserMedia rejects: getStream() throws
CameraRejected(fresh) ==
    /\ camOp # "none"
    /\ IF fresh
       THEN pendingCalls > 0 /\ pendingCalls' = pendingCalls - 1 /\ UNCHANGED stalePending
       ELSE stalePending > 0 /\ stalePending' = stalePending - 1 /\ UNCHANGED pendingCalls
    /\ camOp' = "rejected"
    /\ UNCHANGED <<camStream, camDeviceId, camFacingMode, liveStreams, nextHandle, returned>>
    /\ UNCHANGED progVars

\* stop()
CameraStop ==
    /\ camOp # "none"
    /\ camOp' = "stop"
    /\ IF camStream # 0
       THEN /\ liveStreams' = liveStreams \ {camStream}
            /\ camStream' = 0
       ELSE UNCHANGED <<liveStreams, camStream>>
    /\ returned' = {}
    /\ stalePending' = stalePending + pendingCalls
    /\ pendingCalls' = 0
    /\ UNCHANGED <<camDeviceId, camFacingMode, nextHandle>>
    /\ UNCHANGED progVars

NextCamera ==
    \/ \E facingMode \in {"environment", "user"} : CameraNew(facingMode) /\ UNCHANGED <<enumVars, canvasVars>>
    \/ CameraGetStream /\ UNCHANGED <<enumVars, canvasVars>>
    \/ \E fresh \in BOOLEAN : CameraAcquired(fresh) /\ UNCHANGED <<enumVars, canvasVars>>
    \/ \E fresh \in BOOLEAN : CameraRejected(fresh) /\ UNCHANGED <<enumVars, canvasVars>>
    \/ CameraStop /\ UNCHANGED <<enumVars, canvasVars>>

SpecCamera == Init /\ [][NextCamera]_vars

----------------------------------------------------------------------------
\* getCameras(isIOS) (getCameras.ts) on a machine with the devices `world`.

\* the video input devices there can be, in the order enumerateDevices lists them
Devices == {[deviceId |-> "back", facing |-> "environment"],
            [deviceId |-> "front", facing |-> "user"],
            [deviceId |-> "ext", facing |-> "none"]}
DeviceOrder == <<"back", "front", "ext">>
RECURSIVE Listing(_, _)
Listing(w, i) ==
    IF i > Len(DeviceOrder) THEN <<>>
    ELSE (IF \E d \in w : d.deviceId = DeviceOrder[i] THEN <<DeviceOrder[i]>> ELSE <<>>)
         \o Listing(w, i + 1)

\* the devices getUserMedia can open for { facingMode: { exact: "environment" } },
\* for { facingMode: "user" } (a preference, not a requirement) and for
\* { deviceId: { exact: id }, facingMode: "user" }
EnvironmentDevices == {d \in world : d.facing = "environment"}
UserDevices == IF \E d \in world : d.facing = "user"
               THEN {d \in world : d.facing = "user"}
               ELSE world
DeviceById(id) == {d \in world : d.deviceId = id}

\* what a getUserMedia call can answer: a rejection, or a stream of one of the
\* devices ds.  The video track of a camera stream reports its deviceId
\* (MediaTrackSettings), so new Camera(result) does not throw.
Outcomes(ds) == {[ok |-> FALSE, deviceId |-> ""]}
                \cup {[ok |-> TRUE, deviceId |-> d.deviceId] : d \in ds}

\* try { result = await getVideoStream(..); camera = new Camera(result, facingMode) }
\* catch {}; if (camera) { if (isIOS) camera.stop(); cameras.push(camera) }
PushCamera(out, facingMode) ==
    IF out.ok
    THEN Append(cameras, [deviceId |-> out.deviceId, facingMode |-> facingMode,
                          stream |-> ~isIOS])
    ELSE cameras
\* the live streams after that; StreamsAfter_NoStop: without the camera.stop()
StreamsAfter_NoStop(out) == IF out.ok THEN openStreams + 1 ELSE openStreams
StreamsAfter(out) == IF out.ok /\ ~isIOS THEN openStreams + 1 ELSE openStreams
SucceededAfter(out) == IF out.ok THEN Append(succeeded, out.deviceId) ELSE succeeded

\* the next device of allDevices, from position i on, that is not in
\* usedDeviceIds (0: the loop is over)
RECURSIVE NextUnused(_, _, _)
NextUnused(list, used, i) ==
    IF i > Len(list) THEN 0
    ELSE IF list[i] \in used THEN NextUnused(list, used, i + 1)
    ELSE i

\* getAllVideoDevices when enumerateDevices rejects: its catch returns [];
\* without the catch getCameras would throw
ListingFailure_Throws == [thrown |-> TRUE, devices |-> <<>>]
ListingFailure == [thrown |-> FALSE, devices |-> <<>>]

\* getCameras(isIOS) is called: up to await getVideoStream({ facingMode: "environment" })
EnumStart(w) ==
    /\ enumPc = "idle"
    /\ enumPc' = "env"
    /\ world' = w
    /\ UNCHANGED <<cameras, openStreams, allDevices, usedDeviceIds, deviceIdx, succeeded>>
    /\ UNCHANGED <<progVars, cameraVars, canvasVars>>

\* the environment request settles; up to await getVideoStream({ facingMode: "user" })
EnumEnvironment(out) ==
    /\ enumPc = "env"
    /\ cameras' = PushCamera(out, "environment")
    /\ openStreams' = StreamsAfter(out)
    /\ succeeded' = SucceededAfter(out)
    /\ enumPc' = "user"
    /\ UNCHANGED <<world, allDevices, usedDeviceIds, deviceIdx>>
    /\ UNCHANGED <<progVars, cameraVars, canvasVars>>

\* the user request settles; Step 2 begins if cameras.length < 2
EnumUser(out) ==
    /\ enumPc = "user"
    /\ cameras' = PushCamera(out, "user")
    /\ openStreams' = StreamsAfter(out)
    /\ succeeded' = SucceededAfter(out)
    /\ enumPc' = IF Len(cameras') < 2 THEN "list" ELSE "done"
    /\ UNCHANGED <<world, allDevices, usedDeviceIds, deviceIdx>>
    /\ UNCHANGED <<progVars, cameraVars, canvasVars>>

\* getAllVideoDevices returns; the loop runs up to its first getVideoStream
EnumListed(ok) ==
    /\ enumPc = "list"
    /\ LET r == IF ok THEN [thrown |-> FALSE, devices |-> Listing(world, 1)]
                ELSE ListingFailure
           used == {cameras[i].deviceId : i \in 1..Len(cameras)}
           i == NextUnused(r.devices, used, 1)
       IN /\ allDevices' = r.devices
          /\ usedDeviceIds' = IF r.thrown THEN usedDeviceIds ELSE used
          /\ deviceIdx' = IF r.thrown THEN deviceIdx ELSE i
          /\ enumPc' = IF r.thrown THEN "thrown" ELSE IF i = 0 THEN "done" ELSE "fallback"
    /\ UNCHANGED <<world, cameras, openStreams, succeeded>>
    /\ UNCHANGED <<progVars, cameraVars, canvasVars>>

\* the request for allDevices[deviceIdx] settles; break with two cameras,
\* otherwise on to the next device that is not in usedDeviceIds
EnumFallback(out) ==
    /\ enumPc = "fallback"
    /\ cameras' = PushCamera(out, "none")
    /\ openStreams' = StreamsAfter(out)
    /\ succeeded' = SucceededAfter(out)
    /\ LET i == NextUnused(allDevices, usedDeviceIds, deviceIdx + 1)
       IN IF Len(cameras') >= 2 \/ i = 0
          THEN enumPc' = "done" /\ UNCHANGED deviceIdx
          ELSE enumPc' = "fallback" /\ deviceIdx' = i
    /\ UNCHANGED <<world, allDevices, usedDeviceIds>>
    /\ UNCHANGED <<progVars, cameraVars, canvasVars>>

NextEnum ==
    \/ \E w \in SUBSET Devices : EnumStart(w)
    \/ \E out \in Outcomes(EnvironmentDevices) : EnumEnvironment(out)
    \/ \E out \in Outcomes(UserDevices) : EnumUser(out)
    \/ \E ok \in BOOLEAN : EnumListed(ok)
    \/ enumPc = "fallback" /\ \E out \in Outcomes(DeviceById(allDevices[deviceIdx])) : EnumFallback(out)

SpecEnum == Init /\ [][NextEnum]_vars

----------------------------------------------------------------------------
\* canvas.ts: the numbers of drawVideoToCanvas, calculateCoverCrop and
\* drawOverlayOnMainCanvas.  The code computes in floating point; here the
\* values are exact fractions, numerators over a denominator the record names.

\* the sizes the functions are called with: (videoWidth, videoHeight),
\* (clientWidth, clientHeight), (mainImage.width, mainImage.height), viewportWidth
VideoSizes == {<<4000, 3000>>, <<1920, 1080>>, <<1080, 1920>>, <<640, 480>>, <<780, 1688>>}
ViewportSizes == {<<390, 844>>, <<844, 390>>, <<640, 360>>, <<400, 300>>}
BaseSizes == {<<4000, 8656>>, <<1920, 1080>>, <<390, 844>>, <<844, 390>>, <<400, 120>>}
ViewportWidths == {390, 844, 400, 200}

\* Math.round of the fraction n / d (d > 0)
Round(n, d) == (2 * n + d) \div (2 * d)

\* calculateCoverCrop that rounds the cropped extent to whole pixels
calculateCoverCrop_Rounded(srcWidth, srcHeight, viewportWidth, viewportHeight) ==
    IF srcWidth * viewportHeight > viewportWidth * srcHeight
    THEN LET sw == Round(srcHeight * viewportWidth, viewportHeight)
         IN [den |-> 1, sx2 |-> srcWidth - sw, sy2 |-> 0, sw |-> sw, sh |-> srcHeight]
    ELSE LET sh == Round(srcWidth * viewportHeight, viewportWidth)
         IN [den |-> 1, sx2 |-> 0, sy2 |-> srcHeight - sh, sw |-> srcWidth, sh |-> sh]

\* calculateCoverCrop: sw / den and sh / den are the extent of the crop,
\* sx2 / (2 den) and sy2 / (2 den) its origin
calculateCoverCrop(srcWidth, srcHeight, viewportWidth, viewportHeight) ==
    IF srcWidth * viewportHeight > viewportWidth * srcHeight
    THEN \* srcAspect > viewportAspect: sh = srcHeight, sw = srcHeight * viewportAspect
         [den |-> viewportHeight,
          sx2 |-> srcWidth * viewportHeight - srcHeight * viewportWidth, sy2 |-> 0,
          sw |-> srcHeight * viewportWidth, sh |-> srcHeight * viewportHeight]
    ELSE \* sw = srcWidth, sh = srcWidth / viewportAspect
         [den |-> viewportWidth,
          sx2 |-> 0, sy2 |-> srcHeight * viewportWidth - srcWidth * viewportHeight,
          sw |-> srcWidth * viewportWidth, sh |-> srcWidth * viewportHeight]

\* Math.max(srcWidth / viewportWidth, srcHeight / viewportHeight, 1) as n / d
CoverScale(srcWidth, srcHeight, viewportWidth, viewportHeight) ==
    LET r == IF srcWidth * viewportHeight >= srcHeight * viewportWidth
             THEN [n |-> srcWidth, d |-> viewportWidth]
             ELSE [n |-> srcHeight, d |-> viewportHeight]
    IN IF r.n < r.d THEN [n |-> 1, d |-> 1] ELSE r

\* drawVideoToCanvas: the size of the canvas and the source rectangle of drawImage
FrameGeometry(srcWidth, srcHeight, viewportWidth, viewportHeight, mode) ==
    IF mode = "cover"
    THEN LET scale == CoverScale(srcWidth, srcHeight, viewportWidth, viewportHeight)
         IN [width |-> Round(viewportWidth * scale.n, scale.d),
             height |-> Round(viewportHeight * scale.n, scale.d),
             crop |-> calculateCoverCrop(srcWidth, srcHeight, viewportWidth, viewportHeight)]
    ELSE [width |-> srcWidth, height |-> srcHeight,
          crop |-> [den |-> 1, sx2 |-> 0, sy2 |-> 0, sw |-> srcWidth, sh |-> srcHeight]]

\* drawOverlayOnMainCanvas: overlayX, overlayY, overlayWidth, overlayHeight,
\* each over den = 4 viewportWidth (scale = width / viewportWidth,
\* margin = 20 scale, bottomMargin = 100 scale, overlayWidth = 0.25 width)
OverlayRect(width, height, viewportWidth, corner) ==
    LET overlayWidth == width * viewportWidth
        overlayHeight == height * viewportWidth
        margin == 80 * width
        bottomMargin == 400 * width
        right == 4 * viewportWidth * width - overlayWidth - margin
        bottom == 4 * viewportWidth * height - overlayHeight - bottomMargin
    IN [den |-> 4 * viewportWidth,
        x |-> IF corner \in {"top-left", "bottom-left"} THEN margin ELSE right,
        y |-> IF corner \in {"top-left", "top-right"} THEN margin ELSE bottom,
        w |-> overlayWidth, h |-> overlayHeight]

\* setFitMode(mode)
SetFitMode(mode) ==
    /\ currentFitMode' = mode
    /\ UNCHANGED canvasCall
    /\ UNCHANGED <<progVars, cameraVars, enumVars>>

\* drawVideoToCanvas(video, flip) for a video of size src shown in an element
\* of size viewport
DrawVideo(src, viewport) ==
    /\ canvasCall' = [fn |-> "drawVideoToCanvas", mode |-> currentFitMode,
                      src |-> src, viewport |-> viewport,
                      out |-> FrameGeometry(src[1], src[2], viewport[1], viewport[2],
                                            currentFitMode)]
    /\ UNCHANGED currentFitMode
    /\ UNCHANGED <<progVars, cameraVars, enumVars>>

\* drawOverlayOnMainCanvas(mainImage, overlayImage, viewportWidth, corner)
DrawOverlay(base, viewportWidth, corner) ==
    /\ canvasCall' = [fn |-> "drawOverlayOnMainCanvas", base |-> base,
                      viewportWidth |-> viewportWidth, corner |-> corner,
                      rect |-> OverlayRect(base[1], base[2], viewportWidth, corner)]
    /\ UNCHANGED currentFitMode
    /\ UNCHANGED <<progVars, cameraVars, enumVars>>

NextCanvas ==
    \/ \E mode \in {"cover", "fit"} : SetFitMode(mode)
    \/ \E src \in VideoSizes, viewport \in ViewportSizes : DrawVideo(src, viewport)
    \/ \E base \in BaseSizes, viewportWidth \in ViewportWidths, corner \in Corners :
          DrawOverlay(base, viewportWidth, corner)

SpecCanvas == Init /\ [][NextCanvas]_vars

----------------------------------------------------------------------------
\* Properties

\* C1: with the single-stream constraint active and two devices, at most one
\* of the two Camera objects holds a live stream in every reachable state.
C1_AtMostOneLive ==
    isIOS /\ ncams = 2 => ~(HoldsLive(1) /\ HoldsLive(2))

\* C2: under the single-stream constraint a stream-start (a getUserMedia
\* request, issued after the stop of the same call) is never issued while
\* another device's stream is live.
C2_StopBeforeStart ==
    [][isIOS =>
         \A t \in 1..MaxTasks :
            (tasks'[t].wait = "hw" /\ tasks[t].wait # "hw")
               => \A c \in Cams \ {tasks'[t].cam} : stream'[c] = NoStream]_vars

\* C3: in sequential mode with two devices, capture() calls that each run to
\* completion move the step 1 -> 2 -> 1: between captures the state is either
\* step 1 with no captured overlay and the roles init assigned, or step 2 with
\* a captured overlay, the roles exchanged and no dialog yet (the dialog opens
\* in the capture that returns to step 1).
C3_SequentialCycle ==
    ncams = 2 /\ currentMode = "sequential" /\ OneAtATime =>
       \/ sequentialStep = 1 /\ capturedOverlay = NoImg
             /\ mainCamera = 1 /\ overlayCamera = 2
       \/ sequentialStep = 2 /\ capturedOverlay.ok /\ ~captureDialogOpen
             /\ mainCamera = 2 /\ overlayCamera = 1

\* C3 witness: both captures are over: the dialog shows the composite with the
\* overlay, the step is 1 again and the roles are restored.
C3_Witness ==
    /\ ncams = 2 /\ currentMode = "sequential" /\ OneAtATime
    /\ captureDialogOpen /\ capturedImage.hasOv
    /\ sequentialStep = 1 /\ capturedOverlay = NoImg
    /\ mainCamera = 1 /\ overlayCamera = 2

\* C4: with the view transition, the swapCameras() call of the flip callback
\* has completed when captureOverlayPhoto sets the step to 2.
C4_SwapDoneBeforeStep2 ==
    [][(hasVT /\ sequentialStep' = 2 /\ sequentialStep # 2)
         => \A u \in 1..MaxTasks : ~(tasks[u].kind = "swap" /\ tasks[u].flow = "flip")]_vars

\* C5: once the cameras are enumerated, main is non-null, overlay is null
\* exactly when one device was enumerated, main and overlay are exactly the
\* enumerated Camera objects, and no step changes a Camera's facing mode.
C5_RolesKeepDevices ==
    [][ncams >= 1 =>
         /\ mainCamera' # 0
         /\ (overlayCamera' = 0 <=> ncams = 1)
         /\ ({mainCamera', overlayCamera'} \ {0}) = 1..ncams
         /\ facing' = facing /\ ncams' = ncams]_vars

\* C5 witness: a swap has run to its end with two devices, the roles exchanged.
C5_Witness ==
    /\ ncams = 2 /\ mainCamera = 2 /\ overlayCamera = 1
    /\ cameraInitState = "ready"
    /\ \A t \in 1..MaxTasks : tasks[t].kind = "none"

\* C6: every swapCameras() call with two devices exchanges main and overlay
\* (so two calls restore them), and with one device it changes nothing.
C6_SwapExchanges ==
    [][/\ \A t \in 1..MaxTasks :
            (tasks'[t].kind = "swap" /\ tasks[t].kind # "swap")
               => mainCamera' = overlayCamera /\ overlayCamera' = mainCamera
       /\ (mainCamera' # mainCamera /\ mainCamera # 0)
            => mainCamera' = overlayCamera /\ overlayCamera' = mainCamera
       /\ (ncams = 1 /\ overlayCamera = 0)
            => mainCamera' = mainCamera /\ overlayCamera' = overlayCamera
                  /\ \A t \in 1..MaxTasks : tasks'[t].kind # "swap"]_vars

\* C6 witness: a second swapCameras() call has just exchanged the roles back
\* to the ones init assigned, the first call being over.
C6_Witness ==
    /\ ncams = 2 /\ cameraInitState = "ready"
    /\ mainCamera = 1 /\ overlayCamera = 2
    /\ \E t \in 1..MaxTasks :
          /\ tasks[t].kind = "swap" /\ tasks[t].flow = "click" /\ tasks[t].pc = "sw_main"
          /\ \A u \in 1..MaxTasks \ {t} : tasks[u].kind = "none"

\* C7: with exactly one device the sequential step is 0 in every state.
C7_SingleDeviceStep0 ==
    ncams = 1 => sequentialStep = 0

\* C8: when initCameras completes, the mode is sequential with step 1 if the
\* single-stream constraint is active and two devices were enumerated, and
\* live otherwise.
C8_InitMode ==
    [][(cameraInitState = "pending" /\ cameraInitState' = "ready") =>
         IF isIOS /\ ncams = 2
         THEN currentMode' = "sequential" /\ sequentialStep' = 1
         ELSE currentMode' = "live" /\ sequentialStep' = 0]_vars

\* C8 witness: init has completed under the constraint with two devices and
\* the mode is sequential at step 1.
C8_Witness ==
    /\ cameraInitState = "ready" /\ isIOS /\ ncams = 2
    /\ currentMode = "sequential" /\ sequentialStep = 1
    /\ \A t \in 1..MaxTasks : tasks[t].kind = "none"

\* C9: with the single-stream constraint active a click on the mode toggle
\* changes nothing, and the mode chosen by init never changes.
C9_ToggleNoOpUnderConstraint ==
    [][isIOS =>
         /\ ToggleMode => UNCHANGED vars
         /\ cameraInitState = "ready" => currentMode' = currentMode]_vars

\* C9 witness: under the constraint, in the middle of a sequential capture
\* (step 2), the toggle can be clicked.
C9_Witness ==
    /\ isIOS /\ cameraInitState = "ready" /\ CanClick
    /\ currentMode = "sequential" /\ sequentialStep = 2 /\ capturedOverlay.ok

\* C10: without the constraint a click on the mode toggle in sequential mode
\* yields live mode with no captured overlay and step 0, and a click in live
\* mode with two devices yields sequential mode with step 1 and no captured
\* overlay.
C10_ToggleWithoutConstraint ==
    [][(~isIOS /\ ToggleMode) =>
         /\ currentMode = "sequential"
              => currentMode' = "live" /\ capturedOverlay' = NoImg /\ sequentialStep' = 0
         /\ (currentMode = "live" /\ ncams = 2)
              => currentMode' = "sequential" /\ sequentialStep' = 1
                    /\ capturedOverlay' = NoImg]_vars

\* C10 witness: without the constraint, live mode has been entered from
\* sequential mode while an overlay capture was under way (its swap has been
\* made, the roles are exchanged).
C10_Witness ==
    /\ ~isIOS /\ ncams = 2 /\ currentMode = "live" /\ sequentialStep = 0
    /\ capturedOverlay = NoImg
    /\ mainCamera = 2 /\ overlayCamera = 1
    /\ \E t \in 1..MaxTasks : tasks[t].kind = "capture" /\ tasks[t].flow = "overlay"

\* C11: the committed overlayCorner changes only in the step in which the snap
\* timer of a drag release expires, and never while a pointer is down
\* (isDragging, with or without hasMoved), whatever the sequence of pointer
\* events and timer expiries.
C11_CornerOnlyOnSnapAndNotWhileDown ==
    [][overlayCorner' # overlayCorner =>
         /\ snapTimers # <<>>
         /\ snapTimers' = Tail(snapTimers)
         /\ overlayCorner' = Head(snapTimers)
         /\ ~isDragging]_vars

\* C12: a pointer-up that ends a gesture whose pointermove events all measured
\* less than 10 px from the pointer-down position calls the tap callback
\* exactly once, starts no snap and leaves the committed corner unchanged.
C12_SmallGestureTaps ==
    [][(isDragging /\ ~isDragging' /\ taps' + Len(snapTimers') # taps + Len(snapTimers)
        /\ farthest < DRAG_THRESHOLD * DRAG_THRESHOLD) =>
         /\ taps' = taps + 1
         /\ snapTimers' = snapTimers
         /\ elStyle' = elStyle /\ elCorner' = elCorner
         /\ overlayCorner' = overlayCorner]_vars

\* a small gesture with a pointermove in it has just been released as a tap
C12_Witness ==
    /\ taps = 1 /\ ~isDragging /\ snapTimers = <<>>
    /\ dragStart = <<60, 60>> /\ overlayCorner = "top-left" /\ elCorner = "top-left"

CaptureInFlight(rec) == rec.kind = "capture" \/ RejectsCapture(rec)

\* C14: at any time at most one capture() is in flight; no second one starts
\* while the staging surface of an earlier one is active.
C14_OneCaptureInFlight ==
    Cardinality({t \in 1..MaxTasks : CaptureInFlight(tasks[t])}) <= 1

\* C15: when a capture() fails, sequentialStep has the value it had when that
\* capture() began (the `step` the call read).
C15_FailedCaptureKeepsStep ==
    [][\A t \in 1..MaxTasks :
         (CaptureInFlight(tasks[t]) /\ tasks'[t] = Idle /\ captureError' = "swap"
          /\ tasks[t].wait = "hw")
         => sequentialStep' = tasks[t].step]_vars

\* C16: capture() never completes with an exception: the promise of the click
\* handler that awaits it is never rejected.
C16_NoRejection == captureError = ""

C18_PausedUntilDialogCloses ==
    [][/\ ((\E t \in 1..MaxTasks : /\ tasks'[t].kind = "capture" /\ tasks'[t].flow = "live"
                                    /\ tasks'[t].wait \in {"frame", "flip"})
           => videosPaused')
       /\ (captureDialogOpen' /\ currentMode' = "live" => videosPaused')
       /\ (captureDialogOpen /\ ~captureDialogOpen' => ~videosPaused')]_vars

\* C19: while there is no overlay camera, no capture draws an overlay: neither
\* the image a capture carries nor the image in the dialog has one.
C19_NoOverlayWithoutDevice ==
    (cameraInitState # "pending" /\ overlayCamera = 0) =>
        /\ ~capturedImage.hasOv
        /\ \A t \in 1..MaxTasks : ~tasks[t].img.hasOv

\* C20: while the page is hidden (after stopAllStreams, before
\* resumeAllStreams) no camera holds a stream and both video elements are
\* unbound.
C20_NothingLiveWhileHidden ==
    hidden => /\ \A c \in Cams : ~HoldsLive(c)
              /\ mainSrc = NoStream /\ overlaySrc = NoStream

\* the step in which the resumeAllStreams() activation t returns
ResumeCompletes(t) == tasks[t].kind = "resume" /\ Running(t) /\ tasks'[t] = Idle

\* C21: when resumeAllStreams() returns under the single-stream constraint,
\* only the camera in the main role holds a live stream and the overlay
\* element is unbound, and the overlay element stays unbound while the roles
\* stay as they are; without the constraint both elements are bound to the
\* streams of the cameras in their roles.
C21_ResumeHonoursConstraint ==
    [][/\ \A t \in 1..MaxTasks : ResumeCompletes(t) =>
             IF isIOS
             THEN /\ overlaySrc' = NoStream
                  /\ \A c \in Cams : stream'[c] # NoStream => c = mainCamera'
             ELSE /\ mainSrc' = Current(mainCamera') /\ stream'[mainCamera'] # NoStream
                  /\ overlayCamera' # 0 =>
                       /\ overlaySrc' = Current(overlayCamera')
                       /\ stream'[overlayCamera'] # NoStream
       /\ (isIOS /\ overlaySrc = NoStream /\ overlaySrc' # NoStream)
             => mainCamera' # mainCamera]_vars

\* the step in which the getUserMedia request of the resumeAllStreams()
\* activation t rejects
ResumeFails(t) == tasks[t].kind = "resume" /\ tasks[t].wait = "hw" /\ tasks'[t] = Idle

\* C22: when an acquisition of resumeAllStreams() fails, the failure is
\* reported on the status toast, no rejection leaves handleVisibilityChange,
\* and only the element whose acquisition failed is left unbound: a failure for
\* the main camera leaves the overlay element bound where the overlay camera
\* is resumed too, a failure for the overlay camera leaves the main element
\* bound.
C22_ResumeFailureContained ==
    [][\A t \in 1..MaxTasks : ResumeFails(t) =>
          /\ statusText' = "Error resuming cameras" /\ statusShown'
          /\ captureError' = captureError
          /\ (tasks[t].pc = "r_main" /\ tasks[t].o # 0 /\ ~isIOS /\ ~hidden)
                => overlaySrc' # NoStream
          /\ (tasks[t].pc = "r_overlay" /\ ~hidden) => mainSrc' # NoStream]_vars

\* C27: when getCameras finds no camera, initCameras ends without an exception,
\* with no camera in either role and both elements unbound, and reports
\* "Error: No cameras found"; as long as that message is the status it is
\* shown: no timer of an earlier status message hides it.
C27_NoDeviceStatusStays ==
    /\ [][(ncams # 0 /\ ncams' = 0) =>
             /\ statusText' = "Error: No cameras found" /\ statusShown' /\ ~hideTimeout'
             /\ cameraInitState' = "error"
             /\ \A t \in 1..MaxTasks : tasks'[t].kind # "init"
             /\ captureError' = ""]_vars
    /\ [](ncams = 0 => /\ mainCamera = 0 /\ overlayCamera = 0
                       /\ mainSrc = NoStream /\ overlaySrc = NoStream)
    /\ [](statusText = "Error: No cameras found" => statusShown /\ hideTimers = 0)
\* no camera was found and the timer of "Initializing cameras..." had not fired
C27_Witness ==
    /\ ncams = 0 /\ cameraInitState = "error"
    /\ statusText = "Error: No cameras found" /\ statusShown

\* C23: getStream() is idempotent: all the calls made since the last stop(),
\* also those made while the first acquisition was pending, return one and the
\* same handle, the one of a single hardware acquisition.
C23_GetStreamIdempotent == Cardinality(returned) <= 1

\* C24: stop() twice in a row is stop() once: after stop() the device has no
\* live stream and the Camera no cached handle, deviceId and facingMode are
\* what they were, a second stop() changes nothing, and the next getStream()
\* requests a new stream.
C24_StopIdempotent ==
    [][/\ camOp' = "stop" =>
            /\ camStream' = 0 /\ liveStreams' = {}
            /\ camDeviceId' = camDeviceId /\ camFacingMode' = camFacingMode
       /\ (camOp = "stop" /\ camOp' = "stop") => UNCHANGED cameraVars
       /\ (camOp = "stop" /\ camOp' = "getStream") =>
            pendingCalls' = pendingCalls + 1]_vars

C28_OverlayInsideBase ==
    canvasCall.fn = "drawOverlayOnMainCanvas" =>
        LET r == canvasCall.rect
        IN /\ 0 <= r.x /\ r.x + r.w <= canvasCall.base[1] * r.den
           /\ 0 <= r.y /\ r.y + r.h <= canvasCall.base[2] * r.den

\* C29: in cover mode the canvas of drawVideoToCanvas has the size of the
\* viewport times max(srcWidth / viewportWidth, srcHeight / viewportHeight, 1),
\* rounded, and the frame is neither enlarged nor reduced: the canvas is, to
\* the pixel, as wide and as high as the source rectangle drawn into it.
C29_OutputAtNativeResolution ==
    (canvasCall.fn = "drawVideoToCanvas" /\ canvasCall.mode = "cover") =>
        LET o == canvasCall.out
            s == CoverScale(canvasCall.src[1], canvasCall.src[2],
                            canvasCall.viewport[1], canvasCall.viewport[2])
        IN /\ o.width = Round(canvasCall.viewport[1] * s.n, s.d)
           /\ o.height = Round(canvasCall.viewport[2] * s.n, s.d)
           /\ (o.width - 1) * o.crop.den < o.crop.sw /\ o.crop.sw < (o.width + 1) * o.crop.den
           /\ (o.height - 1) * o.crop.den < o.crop.sh /\ o.crop.sh < (o.height + 1) * o.crop.den

\* the general part of C30: the cover-crop rectangle lies inside the video
\* frame, has the aspect ratio of the viewport, keeps the full width or the
\* full height of the frame and is centred
CoverCropFits ==
    LET c == canvasCall.out.crop
        srcWidth == canvasCall.src[1]
        srcHeight == canvasCall.src[2]
    IN /\ c.sx2 >= 0 /\ c.sy2 >= 0
       /\ c.sx2 + 2 * c.sw <= 2 * srcWidth * c.den
       /\ c.sy2 + 2 * c.sh <= 2 * srcHeight * c.den
       /\ c.sw * canvasCall.viewport[2] = c.sh * canvasCall.viewport[1]
       /\ c.sw = srcWidth * c.den \/ c.sh = srcHeight * c.den
       /\ c.sx2 = srcWidth * c.den - c.sw
       /\ c.sy2 = srcHeight * c.den - c.sh
IsExample == canvasCall.src = <<4000, 3000>> /\ canvasCall.viewport = <<390, 844>>

\* C30 as stated: the general part, and for a 4000x3000 video in a 390x844
\* viewport the crop is round(3000 x 390 / 844) wide, centred horizontally,
\* and keeps the full height.
C30_CoverCropRounded ==
    (canvasCall.fn = "drawVideoToCanvas" /\ canvasCall.mode = "cover") =>
        /\ CoverCropFits
        /\ IsExample =>
             LET c == canvasCall.out.crop
             IN /\ c.sw = Round(3000 * 390, 844) * c.den
                /\ c.sx2 = 4000 * c.den - c.sw
                /\ c.sh = 3000 * c.den /\ c.sy2 = 0

\* C30 amended: the general part, and for a 4000x3000 video in a 390x844
\* viewport the crop is 3000 x 390 / 844 wide, not rounded, centred
\* horizontally, and keeps the full height.
C30_CoverCrop ==
    (canvasCall.fn = "drawVideoToCanvas" /\ canvasCall.mode = "cover") =>
        /\ CoverCropFits
        /\ IsExample =>
             LET c == canvasCall.out.crop
             IN /\ c.sw * 844 = 3000 * 390 * c.den
                /\ c.sx2 = 4000 * c.den - c.sw
                /\ c.sh = 3000 * c.den /\ c.sy2 = 0
\* the 4000x3000 video was cropped for the 390x844 viewport
C30_Witness ==
    canvasCall.fn = "drawVideoToCanvas" /\ canvasCall.mode = "cover" /\ IsExample

\* the activation is inside playCaptureAnimation or has returned from it
InPlay(rec) ==
    /\ rec.kind = "capture"
    /\ rec.pc \in {"anim", "anim_cleanup", "ov_step", "mn_after", "lv_after"}

TransitionName(flow) == IF flow = "overlay" THEN "overlay-preview" ELSE "dialog-image"

\* C32: with document.startViewTransition a playCaptureAnimation call goes
\* through its steps in order: until its update callback has run the staging
\* canvas is shown and carries the call's transition name; from the callback
\* until transition.finished it is hidden and still named; when the call
\* returns it is hidden, unnamed and cleared.
C32_PlayInOrder ==
    \A t \in 1..MaxTasks :
        (hasVT /\ InPlay(tasks[t])) =>
            /\ tasks[t].wait \in {"frame", "flip"} =>
                  stagingActive /\ stagingTag = TransitionName(tasks[t].flow)
            /\ (tasks[t].wait = "finish" \/ tasks[t].pc = "anim_cleanup") =>
                  ~stagingActive /\ stagingTag = TransitionName(tasks[t].flow)
            /\ tasks[t].pc \in {"ov_step", "mn_after", "lv_after"} =>
                  ~stagingActive /\ stagingTag = ""

\* an activation that changes roles or rebinds the elements (initCameras,
\* swapCameras, resumeAllStreams) returns in this step
RoleChangeReturns(t) ==
    /\ tasks[t].kind \in {"init", "swap", "resume"}
    /\ Running(t) /\ tasks'[t] = Idle

\* an element bound to the live stream of the camera in its role is mirrored as
\* that camera requires
FlagFits(src, cam, flip) == cam # 0 /\ src = Current(cam) => flip = shouldFlip(cam)

\* C33: when initCameras, swapCameras or resumeAllStreams returns, the class
\* front-camera of each video element is as shouldFlip of the camera in that
\* role says; and whenever a frame can be rendered (no continuation is
\* queued) an element bound to the live stream of the camera in its role is
\* mirrored as that camera requires, so no frame of a newly assigned camera is
\* shown with the orientation of the previous one.
C33_OrientationFollowsRoles ==
    /\ [][\A t \in 1..MaxTasks :
             RoleChangeReturns(t) => /\ mainFlip' = shouldFlip(mainCamera')
                                     /\ overlayFlip' = shouldFlip(overlayCamera')]_vars
    /\ [](Macrotask => /\ FlagFits(mainSrc, mainCamera, mainFlip)
                    /\ FlagFits(overlaySrc, overlayCamera, overlayFlip))

\* C34: a pointercancel received while the pointer is down, before or after
\* the drag started, ends the gesture in that handler: the controller is idle,
\* left / top are cleared, the element has the class of the committed corner
\* and not overlay-dragging; the committed corner is unchanged, no snap timer
\* is started and onTap is not called.
C34_CancelReverts ==
    [][(isDragging /\ PointerCancel) =>
         /\ ~isDragging' /\ ~hasMoved'
         /\ elStyle' = NoPos /\ elCorner' = overlayCorner /\ ~elDragging'
         /\ overlayCorner' = overlayCorner
         /\ snapTimers' = snapTimers
         /\ taps' = taps]_vars
\* a gesture that had become a drag was cancelled and the element is back at
\* the committed corner
C34_Witness ==
    /\ cancelledFrom = "Dragging" /\ ~isDragging
    /\ elStyle = NoPos /\ elCorner = overlayCorner /\ snapTimers = <<>> /\ taps = 0

\* C35: whenever no capture() is in flight the mode state is consistent: in
\* live mode sequentialStep is 0 and capturedOverlay is null, and in
\* sequential mode capturedOverlay is set exactly when sequentialStep is 2.
C35_ModeStateConsistent ==
    NoCaptureInFlight =>
        /\ currentMode = "live" => sequentialStep = 0 /\ capturedOverlay = NoImg
        /\ currentMode = "sequential" => (capturedOverlay # NoImg <=> sequentialStep = 2)

\* no initCameras, swapCameras or resumeAllStreams activation is pending: every
\* getUserMedia request has settled and every binding that follows it is made
AcquisitionsSettled ==
    /\ cameraInitState = "ready"
    /\ \A t \in 1..MaxTasks : tasks[t].kind \notin {"init", "swap", "resume"}

\* C36: whenever every pending acquisition has settled and the page is
\* visible, the main element is bound to the stream of the camera in the main
\* role and, off iOS, the overlay element to the stream of the camera in the
\* overlay role (a camera whose acquisition was rejected has no stream to bind).
C36_BindingsFollowRoles ==
    (AcquisitionsSettled /\ ~hidden) =>
        /\ HoldsLive(mainCamera) => mainSrc = Current(mainCamera)
        /\ (~isIOS /\ overlayCamera # 0 /\ HoldsLive(overlayCamera)) =>
              overlaySrc = Current(overlayCamera)

\* a capture() that freezes the frame of the main element starts in this step
\* (the element has a stream to take the frame from)
CaptureFreezes ==
    /\ getMainCameraVideo /\ mainSrc # NoStream
    /\ CaptureSeqOverlay \/ CaptureSeqMain \/ CaptureLive

\* C37: the frame capture() freezes for the main layer is a frame of the camera
\* in the main role, whose shouldFlip is the one handed to drawVideoToCanvas:
\* the main element is bound to a stream of that camera when capture() starts.
C37_FrozenFrameOfMainCamera ==
    [][CaptureFreezes => mainSrc[1] = mainCamera]_vars

\* C38: the video elements are paused only while a capture() is in flight or
\* the capture dialog is open: a capture() that ends without opening the
\* dialog (sequential step 1, an early return, a failure) leaves them playing.
C38_PausedOnlyDuringCapture ==
    videosPaused => captureDialogOpen \/ \E t \in 1..MaxTasks : CaptureInFlight(tasks[t])

\* C39: getCameras returns at most two cameras and their deviceIds differ,
\* whatever the two facingMode requests and the deviceId fallback answer.
C39_DistinctDevices ==
    enumPc = "done" =>
        /\ Len(cameras) <= 2
        /\ \A i, j \in 1..Len(cameras) : i # j => cameras[i].deviceId # cameras[j].deviceId

\* C40: a click on the mode toggle changes nothing but currentMode,
\* sequentialStep and capturedOverlay: the roles, the streams, the bindings of
\* the two video elements with their orientation, and the committed corner are
\* as before, so that leaving sequential mode at step 2 leaves main and overlay
\* exchanged as the overlay capture of that cycle left them.
C40_ToggleKeepsRoles ==
    [][ToggleMode =>
         /\ mainCamera' = mainCamera /\ overlayCamera' = overlayCamera
         /\ stream' = stream
         /\ mainSrc' = mainSrc /\ overlaySrc' = overlaySrc
         /\ mainFlip' = mainFlip /\ overlayFlip' = overlayFlip
         /\ overlayCorner' = overlayCorner /\ elCorner' = elCorner]_vars

\* C40 witness: nobody swaps by hand, sequential mode has been left after the
\* overlay capture of a cycle had exchanged the roles and finished, and live
\* mode runs with the second camera as main on both bound elements.
C40_Witness ==
    /\ ~isIOS /\ currentMode = "live" /\ sequentialStep = 0 /\ capturedOverlay = NoImg
    /\ mainCamera = 2 /\ overlayCamera = 1
    /\ mainSrc = Current(2) /\ overlaySrc = Current(1)
    /\ \A t \in 1..MaxTasks : tasks[t].kind # "capture"
    /\ ~videosPaused /\ ~captureDialogOpen

====
